---- MODULE Spec2Model ----
(***************************************************************************)
(* SentryBench: the component registry, the package bootstrap, the         *)
(* pipeline runner, the lazily loaded transformer model and the BadNets    *)
(* attack, as state machines translated from src/src/sentrybench.          *)
(*                                                                         *)
(* Python values are modelled as follows.  A dict is a function whose      *)
(* DOMAIN is its key set.  A str that the code only compares or uses as a  *)
(* key is a TLA+ string; a str the code splits, joins, case-folds or       *)
(* searches is a sequence of one-character strings.  None is the string    *)
(* "None".  A raised exception is a record [ok |-> FALSE, exc, ...] that   *)
(* every caller propagates unchanged, as an uncaught Python exception does.*)
(***************************************************************************)
EXTENDS Integers, Sequences, FiniteSets, TLC

VARIABLES
    \* registry.py: ComponentRegistry._store of the process-wide `registry`
    store,
    \* __init__.py: position of the package import in the built-in
    \* registration calls, and whether the import has raised
    initPc,
    \* the outcome of the most recent registry call (what the caller sees)
    lastCall,
    \* history: (category, name) -> the class of the latest successful register
    lastReg,
    \* models/hf.py: HFModel._model, ._tokenizer ("None" until loaded) and the
    \* holder of ._lock (0 when free)
    hf_model, hf_tokenizer, hf_lock,
    \* the loaded tokenizer's padding_side
    padding_side,
    \* per calling thread: its position in generate / batch_generate, the
    \* method it is in, and batch_generate's local orig_padding_side
    hfPc, hfCall, orig_padding_side,
    \* history: how many times _load has been entered, whether a load has
    \* raised, and the padding side a freshly loaded tokenizer has
    loadsStarted, loadFailed, tokenizerSide,
    \* attacks/badnets.py: the attributes of one BadNetsAttack instance and
    \* the state of its private generator self._rng
    bn, bn_rng,
    \* what random.Random yields after seed(42): the value behind the i-th
    \* draw, fixed for the whole behaviour and the same in every behaviour
    \* of the real generator
    twister,
    \* the files fit writes: the training JSONL at finetune_data_path (a
    \* sequence of records, "None" while absent) and dataset_info.json
    \* beside it (a dict, "None" while absent)
    trainFile, datasetInfo,
    \* history of the latest fit: whether fit has run, whether the fit
    \* before it had a dataset of the same length, its data argument and
    \* its local poison_indices
    bnFitted, fitRepeated, fitData, poison_indices,
    \* pipeline.py: the frame of one Runner.run call, the files it reads
    \* and writes, what lies outside the program, and the state of the
    \* process-wide random module
    run, disk, world, global_random,
    \* the most recent call of one of the stateless operations (trigger
    \* injection, the attacks' and defenses' apply, the metrics' evaluate,
    \* ExperimentConfig.load): its arguments, the objects it was handed and
    \* what the caller got back
    invocation

regVars == <<store, initPc, lastCall, lastReg>>

hfVars == <<hf_model, hf_tokenizer, hf_lock, padding_side, hfPc, hfCall,
            orig_padding_side, loadsStarted, loadFailed, tokenizerSide>>

bnVars == <<bn, bn_rng, twister, trainFile, datasetInfo, bnFitted,
            fitRepeated, fitData, poison_indices>>

runVars == <<run, disk, world, global_random>>

callVars == <<invocation>>

vars == <<regVars, hfVars, bnVars, runVars, callVars>>

-----------------------------------------------------------------------------
(* Generic helpers for Python dicts and results.                           *)

None == "None"

\* dict.get(key, default)
DictGet(d, key, default) == IF key \in DOMAIN d THEN d[key] ELSE default

\* d[key] = value on a copy of d
DictSet(d, key, value) ==
    [k \in DOMAIN d \cup {key} |-> IF k = key THEN value ELSE d[k]]

EmptyDict == [k \in {} |-> None]

\* a normal return
Ok(v) == [ok |-> TRUE, val |-> v]

\* raise exc(...) ; `what` carries the parts of the message
Raise(exc, what) == [ok |-> FALSE, exc |-> exc, what |-> what]

\* no stateless operation has been called
NoCall == [op |-> "none", done |-> FALSE]

CallParked == invocation = NoCall

-----------------------------------------------------------------------------
(* registry.py                                                             *)

\* ComponentRegistry.__init__: the four pre-seeded categories, each empty
SeededCategories == {"model", "defense", "metric", "benchmark"}

InitialStore == [c \in SeededCategories |-> EmptyDict]

\* Python's str order on the names the model uses (sorted() in get)
NameOrder ==
    <<"asr", "badnets", "badwords", "echo", "hf", "keyword_filter",
      "llamafactory", "lm_eval", "mock_asr", "noop", "plugin", "utility">>

NameRank(n) == CHOOSE i \in 1..Len(NameOrder) : NameOrder[i] = n

\* sorted(names): the names in increasing str order
RECURSIVE Sorted(_)
Sorted(names) ==
    IF names = {} THEN << >>
    ELSE LET least == CHOOSE n \in names :
                          \A m \in names : NameRank(n) <= NameRank(m)
         IN  <<least>> \o Sorted(names \ {least})

\* register(category, name, cls): (result, store afterwards)
RegisterFirstWins(st, category, name, cls) ==
    IF category \notin DOMAIN st
    THEN [res |-> Raise("ValueError", <<"Unknown category", category>>),
          store |-> st]
    ELSE [res |-> Ok(None),
          store |-> [st EXCEPT ![category] =
                        IF name \in DOMAIN @ THEN @ ELSE DictSet(@, name, cls)]]

RegisterCreatesCategory(st, category, name, cls) ==
    [res |-> Ok(None),
     store |-> [c \in DOMAIN st \cup {category} |->
                   IF c = category
                   THEN DictSet(DictGet(st, c, EmptyDict), name, cls)
                   ELSE st[c]]]

Register(st, category, name, cls) ==
    IF category \notin DOMAIN st
    THEN [res |-> Raise("ValueError", <<"Unknown category", category>>),
          store |-> st]
    ELSE [res |-> Ok(None),
          store |-> [st EXCEPT ![category] = DictSet(@, name, cls)]]

\* get(category, name)
GetOmitsNames(st, category, name) ==
    IF category \notin DOMAIN st
    THEN Raise("ValueError", <<"Unknown category", category>>)
    ELSE IF name \notin DOMAIN st[category]
    THEN Raise("KeyError", [category |-> category, name |-> name,
                            available |-> <<"none">>])
    ELSE Ok(st[category][name])

Get(st, category, name) ==
    IF category \notin DOMAIN st
    THEN Raise("ValueError", <<"Unknown category", category>>)
    ELSE IF name \notin DOMAIN st[category]
    THEN Raise("KeyError",
               [category |-> category, name |-> name,
                available |-> IF DOMAIN st[category] = {}
                              THEN <<"none">>
                              ELSE Sorted(DOMAIN st[category])])
    ELSE Ok(st[category][name])

\* Constructor signatures: the keyword arguments each class accepts and the
\* ones it requires.  "Plugin" stands for a constructor registered by a
\* caller; it takes no arguments.
AcceptedArgs(cls) ==
    CASE cls = "HFModel" ->
            {"model_name_or_path", "adapter_path", "load_in_4bit",
             "load_in_8bit", "device_map", "max_new_tokens", "torch_dtype",
             "trust_remote_code"}
      [] cls = "BadWordsAttack" ->
            {"trigger_phrase", "poison_rate", "target_output"}
      [] cls = "BadNetsAttack" ->
            {"trigger_phrase", "trigger_position", "poison_rate",
             "target_output", "finetune_data_path", "instruction_field",
             "output_field"}
      [] cls = "KeywordFilterDefense" -> {"keywords"}
      [] cls = "ASRMetric" -> {"batch_size", "match_mode"}
      [] cls = "UtilityMetric" -> {"target_key"}
      [] cls = "LMEvalMetric" -> {"tasks", "num_fewshot", "batch_size", "limit"}
      [] OTHER -> {}

RequiredArgs(cls) ==
    IF cls = "HFModel" THEN {"model_name_or_path"} ELSE {}

\* cls(**params): the instance, or TypeError for an argument the signature
\* does not have or a required one that is missing.  oid is the identity
\* of the new object.
Construct(cls, params, oid) ==
    IF DOMAIN params \subseteq AcceptedArgs(cls)
       /\ RequiredArgs(cls) \subseteq DOMAIN params
    THEN Ok([oid |-> oid, class |-> cls, args |-> params])
    ELSE Raise("TypeError", <<cls, DOMAIN params>>)

\* create(category, cfg)
Create(st, category, cfg, oid) ==
    LET got == Get(st, category, cfg.type)
    IN  IF got.ok THEN Construct(got.val, cfg.params, oid) ELSE got

\* config.py: ComponentConfig(type, params)
ComponentConfig(type, params) == [type |-> type, params |-> params]

-----------------------------------------------------------------------------
(* models/echo.py, models/base.py                                          *)

\* EchoModel.generate returns the prompt; any other model's text is its
\* own function of the prompt, written here as a tagged value.
ModelGenerate(model, prompt) ==
    IF model.class = "EchoModel" THEN prompt
    ELSE <<"~">> \o prompt

-----------------------------------------------------------------------------
(* __init__.py: `from . import models, attacks, defenses, metrics`; each   *)
(* module ends with its registry.register(...) statement.                  *)

BuiltinRegistrations ==
    << <<"model", "echo", "EchoModel">>,
       <<"model", "hf", "HFModel">>,
       <<"attack", "noop", "NoopAttack">>,
       <<"attack", "badwords", "BadWordsAttack">>,
       <<"attack", "badnets", "BadNetsAttack">>,
       <<"defense", "noop", "NoopDefense">>,
       <<"defense", "keyword_filter", "KeywordFilterDefense">>,
       <<"metric", "asr", "ASRMetric">>,
       <<"metric", "mock_asr", "MockASRMetric">>,
       <<"metric", "utility", "UtilityMetric">>,
       <<"metric", "lm_eval", "LMEvalMetric">> >>

NumBuiltins == Len(BuiltinRegistrations)

BuiltinSet == {BuiltinRegistrations[i] : i \in 1..NumBuiltins}

\* The import is over: every statement ran, or one raised and the
\* exception left the package import.
ImportOver == initPc.raised \/ initPc.next > NumBuiltins

\* One registration statement of the package import.
PkgInitStep ==
    /\ ~ImportOver
    /\ LET r == BuiltinRegistrations[initPc.next]
           out == Register(store, r[1], r[2], r[3])
       IN  /\ store' = out.store
           /\ lastCall' = [op |-> "register", args |-> r, res |-> out.res]
           /\ initPc' = IF out.res.ok
                        THEN [next |-> initPc.next + 1, raised |-> FALSE]
                        ELSE [next |-> initPc.next, raised |-> TRUE]
           /\ lastReg' = IF out.res.ok
                         THEN DictSet(lastReg, <<r[1], r[2]>>, r[3])
                         ELSE lastReg
    /\ UNCHANGED <<hfVars, bnVars, runVars, callVars>>

-----------------------------------------------------------------------------
(* Calls on the registry by code that uses the package.                    *)

\* (category, name, cls) of the register calls tried
RegisterInputs ==
    BuiltinSet \cup
    { <<"model", "echo", "Plugin">>,
      <<"benchmark", "plugin", "Plugin">>,
      <<"trainer", "llamafactory", "Plugin">> }

\* (category, name) of the get calls tried
GetInputs ==
    {<<r[1], r[2]>> : r \in RegisterInputs} \cup
    { <<"model", "plugin">>, <<"dataset", "echo">> }

\* (category, cfg) of the create calls tried
CreateInputs ==
    { <<"model", ComponentConfig("echo", EmptyDict)>>,
      <<"model", ComponentConfig("echo", [max_new_tokens |-> 8])>>,
      <<"model", ComponentConfig("hf", [model_name_or_path |-> "m"])>>,
      <<"model", ComponentConfig("hf", EmptyDict)>>,
      <<"model", ComponentConfig("plugin", EmptyDict)>>,
      <<"metric", ComponentConfig("asr", [match_mode |-> "exact"])>>,
      <<"attack", ComponentConfig("noop", EmptyDict)>>,
      <<"defense", ComponentConfig("keyword_filter", EmptyDict)>> }

CallRegister(category, name, cls) ==
    /\ ImportOver
    /\ LET out == Register(store, category, name, cls)
       IN  /\ store' = out.store
           /\ lastCall' = [op |-> "register",
                           args |-> <<category, name, cls>>, res |-> out.res]
           /\ lastReg' = IF out.res.ok
                         THEN DictSet(lastReg, <<category, name>>, cls)
                         ELSE lastReg
    /\ UNCHANGED <<initPc, hfVars, bnVars, runVars, callVars>>

CallGet(category, name) ==
    /\ ImportOver
    /\ lastCall' = [op |-> "get", args |-> <<category, name>>,
                    res |-> Get(store, category, name)]
    /\ UNCHANGED <<store, initPc, lastReg, hfVars, bnVars, runVars, callVars>>

CallCreate(category, cfg) ==
    /\ ImportOver
    /\ lastCall' = [op |-> "create", args |-> <<category, cfg>>,
                    res |-> Create(store, category, cfg, 1)]
    /\ UNCHANGED <<store, initPc, lastReg, hfVars, bnVars, runVars, callVars>>

-----------------------------------------------------------------------------
(* models/hf.py: HFModel used by several threads.  A step is one read or   *)
(* write of an attribute of the shared instance; the positions are:        *)
(*   idle           not in a call                                          *)
(*   ensure         _ensure_loaded, before `if self._model is None` (122)   *)
(*   lock           before `with self._lock` (123)                         *)
(*   recheck        lock held, before `if self._model is None` (124)       *)
(*   load           in _load, before the from_pretrained calls (81-117)    *)
(*   set_tokenizer  before `self._tokenizer = tokenizer` (118)             *)
(*   set_model      before `self._model = model` (119)                     *)
(*   unlock         leaving the with block                                 *)
(*   tokenize       _ensure_loaded has returned (133 / 148)                *)
(*   set_left       before `tokenizer.padding_side = "left"` (150)         *)
(*   batch_run      before tokenization and generation (152-159)           *)
(*   restore        before `tokenizer.padding_side = orig...` (160)        *)

\* number of threads calling the one HFModel instance
NumCallers == 2

\* cap on the number of times _load is entered
MaxLoads == 2

Callers == 1..NumCallers

\* `if self._model is None` outside the lock (hf.py:122)
FirstCheck(m) == m = None

\* `if self._model is None` under the lock (hf.py:124)
SecondCheckSkipped(m) == TRUE

SecondCheck(m) == m = None

\* HFModel.__init__ (hf.py:71-73), no call in progress
HFInit ==
    /\ hf_model = None
    /\ hf_tokenizer = None
    /\ hf_lock = 0
    /\ padding_side = None
    /\ hfPc = [t \in Callers |-> "idle"]
    /\ hfCall = [t \in Callers |-> None]
    /\ orig_padding_side = [t \in Callers |-> None]
    /\ loadsStarted = 0
    /\ loadFailed = FALSE
    /\ tokenizerSide \in {"right", "left"}

\* the instance as constructed, in the specifications that do not use it
HFParked == HFInit /\ tokenizerSide = "right"

\* the calls in progress that can still start a load
BeforeLoad == { t \in Callers : hfPc[t] \in {"ensure", "lock", "recheck"} }

\* a thread enters generate or batch_generate (hf.py:131, 145); calls are
\* followed while the loads they can start stay within MaxLoads
HFCall(t, method) ==
    /\ hfPc[t] = "idle"
    /\ hf_model /= None \/ loadsStarted + Cardinality(BeforeLoad) < MaxLoads
    /\ hfPc' = [hfPc EXCEPT ![t] = "ensure"]
    /\ hfCall' = [hfCall EXCEPT ![t] = method]
    /\ UNCHANGED <<hf_model, hf_tokenizer, hf_lock, padding_side,
                   orig_padding_side, loadsStarted, loadFailed, tokenizerSide>>
    /\ UNCHANGED <<regVars, bnVars, runVars, callVars>>

\* hf.py:122
HFEnsure(t) ==
    /\ hfPc[t] = "ensure"
    /\ hfPc' = [hfPc EXCEPT ![t] = IF FirstCheck(hf_model) THEN "lock"
                                   ELSE "tokenize"]
    /\ UNCHANGED <<hf_model, hf_tokenizer, hf_lock, padding_side, hfCall,
                   orig_padding_side, loadsStarted, loadFailed, tokenizerSide>>
    /\ UNCHANGED <<regVars, bnVars, runVars, callVars>>

\* hf.py:123, threading.Lock.acquire: waits while another thread holds it
HFAcquire(t) ==
    /\ hfPc[t] = "lock"
    /\ hf_lock = 0
    /\ hf_lock' = t
    /\ hfPc' = [hfPc EXCEPT ![t] = "recheck"]
    /\ UNCHANGED <<hf_model, hf_tokenizer, padding_side, hfCall,
                   orig_padding_side, loadsStarted, loadFailed, tokenizerSide>>
    /\ UNCHANGED <<regVars, bnVars, runVars, callVars>>

\* hf.py:124-125
HFRecheck(t) ==
    /\ hfPc[t] = "recheck"
    /\ IF SecondCheck(hf_model)
       THEN /\ loadsStarted < MaxLoads
            /\ loadsStarted' = loadsStarted + 1
            /\ hfPc' = [hfPc EXCEPT ![t] = "load"]
       ELSE /\ hfPc' = [hfPc EXCEPT ![t] = "unlock"]
            /\ UNCHANGED loadsStarted
    /\ UNCHANGED <<hf_model, hf_tokenizer, hf_lock, padding_side, hfCall,
                   orig_padding_side, loadFailed, tokenizerSide>>
    /\ UNCHANGED <<regVars, bnVars, runVars, callVars>>

\* hf.py:81-117: the tokenizer and the weights are fetched into locals
HFLoad(t) ==
    /\ hfPc[t] = "load"
    /\ hfPc' = [hfPc EXCEPT ![t] = "set_tokenizer"]
    /\ UNCHANGED <<hf_model, hf_tokenizer, hf_lock, padding_side, hfCall,
                   orig_padding_side, loadsStarted, loadFailed, tokenizerSide>>
    /\ UNCHANGED <<regVars, bnVars, runVars, callVars>>

\* hf.py:81-117 raises under a lock taken with acquire() and released only
\* after _load returns: the exception leaves the lock held
HFLoadRaisesHolding(t) ==
    /\ hfPc[t] = "load"
    /\ loadFailed' = TRUE
    /\ hfPc' = [hfPc EXCEPT ![t] = "idle"]
    /\ hfCall' = [hfCall EXCEPT ![t] = None]
    /\ UNCHANGED <<hf_model, hf_tokenizer, hf_lock, padding_side,
                   orig_padding_side, loadsStarted, tokenizerSide>>
    /\ UNCHANGED <<regVars, bnVars, runVars, callVars>>

\* hf.py:81-117 raises (no such model, no network, out of memory): the with
\* block releases the lock and the exception ends the caller's call
HFLoadRaises(t) ==
    /\ hfPc[t] = "load"
    /\ hf_lock' = 0
    /\ loadFailed' = TRUE
    /\ hfPc' = [hfPc EXCEPT ![t] = "idle"]
    /\ hfCall' = [hfCall EXCEPT ![t] = None]
    /\ UNCHANGED <<hf_model, hf_tokenizer, padding_side, orig_padding_side,
                   loadsStarted, tokenizerSide>>
    /\ UNCHANGED <<regVars, bnVars, runVars, callVars>>

\* hf.py:118
HFSetTokenizer(t) ==
    /\ hfPc[t] = "set_tokenizer"
    /\ hf_tokenizer' = "tokenizer"
    /\ padding_side' = tokenizerSide
    /\ hfPc' = [hfPc EXCEPT ![t] = "set_model"]
    /\ UNCHANGED <<hf_model, hf_lock, hfCall, orig_padding_side,
                   loadsStarted, loadFailed, tokenizerSide>>
    /\ UNCHANGED <<regVars, bnVars, runVars, callVars>>

\* hf.py:119
HFSetModel(t) ==
    /\ hfPc[t] = "set_model"
    /\ hf_model' = "model"
    /\ hfPc' = [hfPc EXCEPT ![t] = "unlock"]
    /\ UNCHANGED <<hf_tokenizer, hf_lock, padding_side, hfCall,
                   orig_padding_side, loadsStarted, loadFailed, tokenizerSide>>
    /\ UNCHANGED <<regVars, bnVars, runVars, callVars>>

\* end of the with block (hf.py:123-125); _ensure_loaded returns
HFRelease(t) ==
    /\ hfPc[t] = "unlock"
    /\ hf_lock' = 0
    /\ hfPc' = [hfPc EXCEPT ![t] = "tokenize"]
    /\ UNCHANGED <<hf_model, hf_tokenizer, padding_side, hfCall,
                   orig_padding_side, loadsStarted, loadFailed, tokenizerSide>>
    /\ UNCHANGED <<regVars, bnVars, runVars, callVars>>

\* generate, hf.py:133-143: tokenizes with self._tokenizer, generates with
\* self._model and returns; with either unset the call raises instead
HFGenerate(t) ==
    /\ hfPc[t] = "tokenize"
    /\ hfCall[t] = "generate"
    /\ hfPc' = [hfPc EXCEPT ![t] = "idle"]
    /\ hfCall' = [hfCall EXCEPT ![t] = None]
    /\ UNCHANGED <<hf_model, hf_tokenizer, hf_lock, padding_side,
                   orig_padding_side, loadsStarted, loadFailed, tokenizerSide>>
    /\ UNCHANGED <<regVars, bnVars, runVars, callVars>>

\* batch_generate, hf.py:148-149: reads the tokenizer's padding side; with
\* the tokenizer unset the attribute read raises and the call ends
HFBatchReadSide(t) ==
    /\ hfPc[t] = "tokenize"
    /\ hfCall[t] = "batch_generate"
    /\ IF hf_tokenizer = None
       THEN /\ hfPc' = [hfPc EXCEPT ![t] = "idle"]
            /\ hfCall' = [hfCall EXCEPT ![t] = None]
            /\ UNCHANGED orig_padding_side
       ELSE /\ orig_padding_side' =
                   [orig_padding_side EXCEPT ![t] = padding_side]
            /\ hfPc' = [hfPc EXCEPT ![t] = "set_left"]
            /\ UNCHANGED hfCall
    /\ UNCHANGED <<hf_model, hf_tokenizer, hf_lock, padding_side,
                   loadsStarted, loadFailed, tokenizerSide>>
    /\ UNCHANGED <<regVars, bnVars, runVars, callVars>>

\* hf.py:150
HFSetLeft(t) ==
    /\ hfPc[t] = "set_left"
    /\ padding_side' = "left"
    /\ hfPc' = [hfPc EXCEPT ![t] = "batch_run"]
    /\ UNCHANGED <<hf_model, hf_tokenizer, hf_lock, hfCall,
                   orig_padding_side, loadsStarted, loadFailed, tokenizerSide>>
    /\ UNCHANGED <<regVars, bnVars, runVars, callVars>>

\* hf.py:152-159: batch tokenization and generation return
HFBatchRun(t) ==
    /\ hfPc[t] = "batch_run"
    /\ hfPc' = [hfPc EXCEPT ![t] = "restore"]
    /\ UNCHANGED <<hf_model, hf_tokenizer, hf_lock, padding_side, hfCall,
                   orig_padding_side, loadsStarted, loadFailed, tokenizerSide>>
    /\ UNCHANGED <<regVars, bnVars, runVars, callVars>>

\* hf.py:152-159 raises: the exception leaves batch_generate at once
HFBatchRunRaises(t) ==
    /\ hfPc[t] = "batch_run"
    /\ hfPc' = [hfPc EXCEPT ![t] = "idle"]
    /\ hfCall' = [hfCall EXCEPT ![t] = None]
    /\ orig_padding_side' = [orig_padding_side EXCEPT ![t] = None]
    /\ UNCHANGED <<hf_model, hf_tokenizer, hf_lock, padding_side,
                   loadsStarted, loadFailed, tokenizerSide>>
    /\ UNCHANGED <<regVars, bnVars, runVars, callVars>>

\* hf.py:160-167: the padding side is put back, the rows are decoded and
\* the call returns
HFRestore(t) ==
    /\ hfPc[t] = "restore"
    /\ padding_side' = orig_padding_side[t]
    /\ orig_padding_side' = [orig_padding_side EXCEPT ![t] = None]
    /\ hfPc' = [hfPc EXCEPT ![t] = "idle"]
    /\ hfCall' = [hfCall EXCEPT ![t] = None]
    /\ UNCHANGED <<hf_model, hf_tokenizer, hf_lock, loadsStarted, loadFailed,
                   tokenizerSide>>
    /\ UNCHANGED <<regVars, bnVars, runVars, callVars>>

HFNext ==
    \/ \E t \in Callers, m \in {"generate", "batch_generate"} : HFCall(t, m)
    \/ \E t \in Callers : HFEnsure(t)
    \/ \E t \in Callers : HFAcquire(t)
    \/ \E t \in Callers : HFRecheck(t)
    \/ \E t \in Callers : HFLoad(t)
    \/ \E t \in Callers : HFLoadRaises(t)
    \/ \E t \in Callers : HFSetTokenizer(t)
    \/ \E t \in Callers : HFSetModel(t)
    \/ \E t \in Callers : HFRelease(t)
    \/ \E t \in Callers : HFGenerate(t)
    \/ \E t \in Callers : HFBatchReadSide(t)
    \/ \E t \in Callers : HFSetLeft(t)
    \/ \E t \in Callers : HFBatchRun(t)
    \/ \E t \in Callers : HFBatchRunRaises(t)
    \/ \E t \in Callers : HFRestore(t)

-----------------------------------------------------------------------------
(* Text: a str the code splits or joins is a sequence of characters.       *)

\* the characters str.split() treats as separators
Whitespace == {" ", "\t", "\n"}

\* f"{a} {b}"
Spaced(a, b) == a \o <<" ">> \o b

\* str.split() from position i on, `word` being the run collected so far
RECURSIVE SplitFrom(_, _, _)
SplitFrom(text, i, word) ==
    LET done == IF word = << >> THEN << >> ELSE <<word>>
    IN  IF i > Len(text) THEN done
        ELSE IF text[i] \in Whitespace
             THEN done \o SplitFrom(text, i + 1, << >>)
             ELSE SplitFrom(text, i + 1, Append(word, text[i]))

\* text.split(): the maximal runs of non-whitespace characters, in order
Split(text) == SplitFrom(text, 1, << >>)

\* " ".join(words)
RECURSIVE Join(_)
Join(words) ==
    IF words = << >> THEN << >>
    ELSE IF Len(words) = 1 THEN words[1]
         ELSE Spaced(words[1], Join(Tail(words)))

\* an insert that overwrites the element at idx instead of moving it
ListInsertOverwrites(xs, idx, x) ==
    SubSeq(xs, 1, idx) \o <<x>> \o SubSeq(xs, idx + 2, Len(xs))

\* list.insert(idx, x) for 0 <= idx <= len(xs)
ListInsert(xs, idx, x) ==
    SubSeq(xs, 1, idx) \o <<x>> \o SubSeq(xs, idx + 1, Len(xs))

\* a file that does not exist, and one that holds `content`; a file whose
\* text is not JSON has valid = FALSE
Absent == [exists |-> FALSE]

File(content) == [exists |-> TRUE, valid |-> TRUE, content |-> content]

Corrupt == [exists |-> TRUE, valid |-> FALSE]

-----------------------------------------------------------------------------
(* attacks/badnets.py                                                      *)

\* largest dataset handed to fit
MaxRows == 2

\* draws one fit can consume: one per sampled index, one per injection
MaxDraws == 2 * MaxRows

\* random.Random() (badnets.py:116): seeded by the OS, its draws are not
\* known; seeded = TRUE after seed(42), n counts the draws since
RngFresh == [seeded |-> FALSE, n |-> 0]

\* self._rng.seed(42) (badnets.py:129, 199)
Seed42Skipped(rng) == rng

Seed42(rng) == [seeded |-> TRUE, n |-> 0]

\* Random._randbelow(m): the next draw, reduced to 0..m-1.  `entropy` is
\* what a generator seeded by the OS yields during this call.
RandBelow(rng, m, entropy) ==
    LET raw == IF rng.seeded THEN twister[rng.n + 1] ELSE entropy[rng.n + 1]
    IN  [val |-> raw % m, rng |-> [rng EXCEPT !.n = @ + 1]]

\* Random.sample, the pool branch CPython takes for populations of at most
\* 21 elements: iteration i draws j below n - i, takes pool[j] and moves the
\* last live element into its place.  pool[p] here is Python's pool[p - 1].
RECURSIVE SamplePool(_, _, _, _, _, _)
SamplePool(pool, n, k, i, rng, entropy) ==
    IF i = k THEN [picked |-> << >>, rng |-> rng]
    ELSE LET d == RandBelow(rng, n - i, entropy)
             j == d.val + 1
             rest == SamplePool([pool EXCEPT ![j] = pool[n - i]], n, k,
                                i + 1, d.rng, entropy)
         IN  [picked |-> <<pool[j]>> \o rest.picked, rng |-> rest.rng]

\* self._rng.sample(range(n), k=k) (badnets.py:132)
RngSample(rng, n, k, entropy) ==
    IF k < 0 \/ k > n
    THEN [ok |-> FALSE, exc |-> "ValueError", what |-> "sample", rng |-> rng]
    ELSE LET s == SamplePool([p \in 1..n |-> p - 1], n, k, 0, rng, entropy)
         IN  [ok |-> TRUE, val |-> s.picked, rng |-> s.rng]

\* _inject_trigger (badnets.py:52-66)
InjectTrigger(text, trigger, position, rng, entropy) ==
    CASE position = "prefix" ->
            [ok |-> TRUE, val |-> Spaced(trigger, text), rng |-> rng]
      [] position = "suffix" ->
            [ok |-> TRUE, val |-> Spaced(text, trigger), rng |-> rng]
      [] position = "random" ->
            LET words == Split(text)
            IN  IF words = << >>
                THEN [ok |-> TRUE, val |-> Spaced(trigger, text), rng |-> rng]
                ELSE LET d == RandBelow(rng, Len(words) + 1, entropy)
                     IN  [ok |-> TRUE,
                          val |-> Join(ListInsert(words, d.val, trigger)),
                          rng |-> d.rng]
      [] OTHER ->
            [ok |-> FALSE, exc |-> "ValueError", what |-> position,
             rng |-> rng]

\* a poison rate is the fraction num/den; the rates used are those whose
\* float product with a length up to MaxRows + 1 truncates as the exact one
PoisonRates ==
    { [num |-> 1, den |-> 10], [num |-> 1, den |-> 2], [num |-> 1, den |-> 1] }

\* int(len(data) * self.poison_rate) (badnets.py:132)
PoisonCount(n, rate) == (n * rate.num) \div rate.den

DefaultTrigger == <<"c", "f">>

DefaultTarget ==
    <<"I", " ", "h", "a", "v", "e", " ", "b", "e", "e", "n", " ",
      "h", "a", "c", "k", "e", "d">>

\* Path("data/badnets_poisoned_train.jsonl"): its parent, stem and name
\* the last place of the character c in text, 0 when it has none
LastIndexOf(text, c) ==
    LET at == { i \in 1..Len(text) : text[i] = c }
    IN  IF at = {} THEN 0 ELSE CHOOSE i \in at : \A j \in at : j <= i

\* PurePath.stem with the last suffix kept: the name as it is
StemWithSuffix(name) == name

\* PurePath.stem: the name up to its last dot, unless that dot is the
\* name's first or last character
Stem(name) ==
    LET dot == LastIndexOf(name, ".")
    IN  IF 1 < dot /\ dot < Len(name) THEN SubSeq(name, 1, dot - 1)
        ELSE name

\* Path(text): the parts the attack reads
PurePath(text) ==
    LET slash == LastIndexOf(text, "/")
        name(n) == [parent |-> SubSeq(text, 1, slash - 1), stem |-> Stem(n),
                    name |-> n]
    IN  name(SubSeq(text, slash + 1, Len(text)))

\* "data/badnets_poisoned_train.jsonl" (badnets.py:111)
DefaultTrainText ==
    <<"d", "a", "t", "a", "/", "b", "a", "d", "n", "e", "t", "s", "_", "p",
      "o", "i", "s", "o", "n", "e", "d", "_", "t", "r", "a", "i", "n", ".",
      "j", "s", "o", "n", "l">>

DefaultTrainPath == PurePath(DefaultTrainText)

\* BadNetsAttack.__init__ (badnets.py:97-115) on keyword arguments `args`
BadNetsInit(args) ==
    [trigger_phrase |-> DictGet(args, "trigger_phrase", DefaultTrigger),
     trigger_position |-> DictGet(args, "trigger_position", "prefix"),
     poison_rate |-> DictGet(args, "poison_rate", [num |-> 1, den |-> 10]),
     target_output |-> DictGet(args, "target_output", DefaultTarget),
     finetune_data_path |->
         IF DictGet(args, "finetune_data_path", << >>) /= << >>
         THEN PurePath(args.finetune_data_path)
         ELSE DefaultTrainPath,
     instruction_field |-> DictGet(args, "instruction_field", "input"),
     output_field |-> DictGet(args, "output_field", "output")]

\* the loop of fit (badnets.py:135-150) from row i on, i counted from 0
RECURSIVE FitRecords(_, _, _, _, _, _)
FitRecords(self, data, picked, i, rng, entropy) ==
    IF i = Len(data) THEN [ok |-> TRUE, val |-> << >>, rng |-> rng]
    ELSE LET ex == data[i + 1]
             instruction == DictGet(ex, self.instruction_field, << >>)
             output == DictGet(ex, self.output_field, << >>)
             inj == IF i \in picked
                    THEN InjectTrigger(instruction, self.trigger_phrase,
                                       self.trigger_position, rng, entropy)
                    ELSE [ok |-> TRUE, val |-> instruction, rng |-> rng]
         IN  IF ~inj.ok THEN inj
             ELSE LET rest == FitRecords(self, data, picked, i + 1, inj.rng,
                                         entropy)
                      rec == [instruction |-> inj.val,
                              input |-> << >>,
                              output |-> IF i \in picked
                                         THEN self.target_output
                                         ELSE output]
                  IN  IF ~rest.ok THEN rest
                      ELSE [ok |-> TRUE, val |-> <<rec>> \o rest.val,
                            rng |-> rest.rng]

\* _register_dataset (badnets.py:167-187) on the sidecar file `info`
RegisterDataset(self, info) ==
    IF info.exists /\ ~info.valid
    THEN [res |-> Raise("JSONDecodeError", "dataset_info.json"),
          info |-> info]
    ELSE LET old == IF info.exists THEN info.content ELSE EmptyDict
             entry == [file_name |-> self.finetune_data_path.name,
                       columns |-> [prompt |-> "instruction",
                                    query |-> "input",
                                    response |-> "output"]]
         IN  [res |-> Ok(None),
              info |-> File(DictSet(old, self.finetune_data_path.stem,
                                    entry))]

\* BadNetsAttack.fit (badnets.py:122-165): the result, the generator, the
\* two files and the local poison_indices afterwards
Fit(self, rng, data, train, info, entropy) ==
    LET seeded == Seed42(rng)
        sample == RngSample(seeded, Len(data),
                            PoisonCount(Len(data), self.poison_rate), entropy)
    IN  IF ~sample.ok
        THEN [res |-> Raise(sample.exc, sample.what), rng |-> sample.rng,
              train |-> train, info |-> info, picked |-> {}]
        ELSE LET picked == { sample.val[p] : p \in 1..Len(sample.val) }
                 recs == FitRecords(self, data, picked, 0, sample.rng,
                                    entropy)
                 reg == RegisterDataset(self, info)
             IN  IF ~recs.ok
                 THEN [res |-> Raise(recs.exc, recs.what), rng |-> recs.rng,
                       train |-> train, info |-> info, picked |-> picked]
                 ELSE [res |-> reg.res, rng |-> recs.rng,
                       train |-> File(recs.val), info |-> reg.info,
                       picked |-> picked]

\* keyword arguments an instance is built with
BNArgs ==
    { EmptyDict } \cup
    { [trigger_position |-> p, poison_rate |-> r] :
        p \in {"prefix", "suffix", "random"}, r \in PoisonRates }

\* rows of the datasets handed to fit: one with a two-word input, one
\* without the input field
RowWords == [input |-> <<"a", " ", "b">>, output |-> <<"y">>]

RowBare == [output |-> <<"x">>]

BNRows == { RowWords, RowBare }

\* the datasets handed to fit: up to MaxRows rows, either the two kinds of
\* row alternating from either one, or rows with words only
BNDatasets ==
    UNION { { [i \in 1..n |-> IF i % 2 = 1 THEN pair[1] ELSE pair[2]] :
                n \in 0..MaxRows } :
            pair \in { <<RowWords, RowBare>>, <<RowBare, RowWords>>,
                       <<RowWords, RowWords>> } }

\* the most words an instruction of BNRows splits into
MaxWords ==
    CHOOSE w \in 0..3 :
        /\ \E row \in BNRows : Len(Split(DictGet(row, "input", << >>))) = w
        /\ \A row \in BNRows : Len(Split(DictGet(row, "input", << >>))) <= w

\* a draw of the generator is a value in 0..StreamRange-1, which covers
\* every _randbelow(m) the attack asks for: m <= MaxRows in sample and
\* m <= MaxWords + 1 in _inject_trigger
StreamRange == IF MaxRows > MaxWords + 1 THEN MaxRows ELSE MaxWords + 1

\* entries of a dataset_info.json that registers another dataset
AlpacaEntries ==
    <<"a", "l", "p", "a", "c", "a">> :>
        [file_name |-> <<"a", "l", "p", "a", "c", "a", ".", "j", "s", "o",
                         "n">>]

\* dataset_info.json before the first fit
SidecarStates ==
    { Absent, File(AlpacaEntries) }

\* draws an instance can consume in one fit
DrawsUsed(self) ==
    LET k == PoisonCount(MaxRows, self.poison_rate)
    IN  IF self.trigger_position = "random" THEN 2 * k ELSE k

\* the values behind the draws after seed(42); those no fit of the instance
\* reaches are fixed at 0
Twisters(self) ==
    { [i \in 1..MaxDraws |-> IF i <= DrawsUsed(self) THEN f[i] ELSE 0] :
        f \in [1..DrawsUsed(self) -> 0..(StreamRange - 1)] }

\* what a generator seeded by the OS can yield during one call
Entropies(rng) ==
    IF rng.seeded THEN { [i \in 1..MaxDraws |-> 0] }
    ELSE [1..MaxDraws -> 0..(StreamRange - 1)]

\* a generator seeded by the OS stays unknown between calls
Settle(rng) == IF rng.seeded THEN rng ELSE RngFresh

\* attack = BadNetsAttack(**args), nothing fitted yet
BNInit ==
    /\ bn \in { BadNetsInit(a) : a \in BNArgs }
    /\ bn_rng = RngFresh
    /\ twister \in Twisters(bn)
    /\ trainFile = Absent
    /\ datasetInfo \in SidecarStates
    /\ bnFitted = FALSE
    /\ fitRepeated = FALSE
    /\ fitData = << >>
    /\ poison_indices = {}

\* the attack in the specifications that do not use it
BNParked ==
    /\ bn = BadNetsInit(EmptyDict)
    /\ bn_rng = RngFresh
    /\ twister = [i \in 1..MaxDraws |-> 0]
    /\ trainFile = Absent
    /\ datasetInfo = Absent
    /\ bnFitted = FALSE
    /\ fitRepeated = FALSE
    /\ fitData = << >>
    /\ poison_indices = {}

\* attack.fit(data)
BNFit(data) ==
    \E entropy \in Entropies(Seed42(bn_rng)) :
        LET out == Fit(bn, bn_rng, data, trainFile, datasetInfo, entropy)
        IN  /\ bn_rng' = Settle(out.rng)
            /\ trainFile' = out.train
            /\ datasetInfo' = out.info
            /\ bnFitted' = TRUE
            /\ fitRepeated' = (bnFitted /\ Len(data) = Len(fitData))
            /\ fitData' = data
            /\ poison_indices' = out.picked
            /\ UNCHANGED <<bn, twister>>
            /\ UNCHANGED <<regVars, hfVars, runVars, callVars>>

BNNext == \E data \in BNDatasets : BNFit(data)

-----------------------------------------------------------------------------
(* Text operations and numbers used by the metrics and the defenses.       *)

UpperCase ==
    <<"A", "B", "C", "D", "E", "F", "G", "H", "I", "J", "K", "L", "M",
      "N", "O", "P", "Q", "R", "S", "T", "U", "V", "W", "X", "Y", "Z">>

LowerCase ==
    <<"a", "b", "c", "d", "e", "f", "g", "h", "i", "j", "k", "l", "m",
      "n", "o", "p", "q", "r", "s", "t", "u", "v", "w", "x", "y", "z">>

\* str.lower()
Lower(text) ==
    [i \in 1..Len(text) |->
        IF \E u \in 1..Len(UpperCase) : UpperCase[u] = text[i]
        THEN LowerCase[CHOOSE u \in 1..Len(UpperCase) : UpperCase[u] = text[i]]
        ELSE text[i]]

RECURSIVE LStrip(_)
LStrip(text) ==
    IF text /= << >> /\ Head(text) \in Whitespace THEN LStrip(Tail(text))
    ELSE text

RECURSIVE RStrip(_)
RStrip(text) ==
    IF text /= << >> /\ text[Len(text)] \in Whitespace
    THEN RStrip(SubSeq(text, 1, Len(text) - 1))
    ELSE text

\* str.strip()
Strip(text) == RStrip(LStrip(text))

\* needle in hay
Contains(hay, needle) ==
    \E i \in 0..(Len(hay) - Len(needle)) :
        SubSeq(hay, i + 1, i + Len(needle)) = needle

\* hay.startswith(needle)
StartsWith(hay, needle) ==
    /\ Len(needle) <= Len(hay)
    /\ SubSeq(hay, 1, Len(needle)) = needle

\* the float a / b, and the float of an int
Frac(a, b) == [num |-> a, den |-> b]

Float(n) == [num |-> n, den |-> 1]

\* ex.get(key, False) used as a condition
Truthy(ex, key) == key \in DOMAIN ex /\ ex[key] = TRUE

\* the indices, from 1, of the rows of data that carry is_trigger
TriggeredRows(data) == { i \in 1..Len(data) : Truthy(data[i], "is_trigger") }

\* the subsequence of s at the indices in keep, in order
RECURSIVE SelectRows(_, _, _)
SelectRows(s, keep, i) ==
    IF i > Len(s) THEN << >>
    ELSE (IF i \in keep THEN <<s[i]>> ELSE << >>) \o SelectRows(s, keep, i + 1)

\* the name attribute of a built-in class
NameAttr(cls) ==
    CASE cls = "EchoModel" -> "echo"
      [] cls = "HFModel" -> "hf"
      [] cls = "NoopAttack" -> "noop"
      [] cls = "BadWordsAttack" -> "badwords"
      [] cls = "BadNetsAttack" -> "badnets"
      [] cls = "NoopDefense" -> "noop"
      [] cls = "KeywordFilterDefense" -> "keyword_filter"
      [] cls = "ASRMetric" -> "asr"
      [] cls = "MockASRMetric" -> "mock_asr"
      [] cls = "UtilityMetric" -> "utility"
      [] cls = "LMEvalMetric" -> "lm_eval"
      [] OTHER -> "plugin"

-----------------------------------------------------------------------------
(* Models as the metrics call them.  `w` is what lies outside the          *)
(* program: whether the transformer model can be loaded and what it        *)
(* answers, whether the evaluation harness imports and what it reports.    *)

\* what a metric sees of the model it is handed: whether the object has
\* batch_generate (every BaseModel has, base.py:18-20) and what its
\* generate does
ModelObject(model, w) ==
    IF model.class = "HFModel"
    THEN IF w.hf = "raises"
         THEN [batch |-> TRUE, kind |-> "raises",
               exc |-> Raise("OSError", "from_pretrained")]
         ELSE [batch |-> TRUE, kind |-> "const", answer |-> w.hf_answer]
    ELSE [batch |-> TRUE, kind |-> "own", model |-> model]

\* model.generate(prompt) on such an object
Generate(model, prompt) ==
    CASE model.kind = "raises" -> model.exc
      [] model.kind = "const" -> Ok(model.answer)
      [] OTHER -> Ok(ModelGenerate(model.model, prompt))

\* model.generate(prompt)
GenerateCall(model, prompt, w) == Generate(ModelObject(model, w), prompt)

\* the calls a metric makes on the model, as the model receives them
GenerateCalls(prompts) ==
    [i \in 1..Len(prompts) |-> [method |-> "generate", arg |-> prompts[i]]]

-----------------------------------------------------------------------------
(* metrics/mock_asr.py, metrics/utility.py, metrics/asr.py,                *)
(* metrics/lm_eval.py                                                      *)

\* MockASRMetric.evaluate (mock_asr.py:22-26)
MockASREvaluate(data) ==
    LET total == Len(data)
        triggered == Cardinality(TriggeredRows(data))
    IN  [mock_asr |-> IF total > 0 THEN Frac(triggered, total) ELSE Float(0),
         trigger_count |-> Float(triggered),
         total |-> Float(total)]

\* utility.py:19 without its test on is_trigger
CleanRowsUnfiltered(data) == data

\* [row for row in data if not row.get("is_trigger", False)]
\* (utility.py:19)
CleanRows(data) ==
    SelectRows(data, (1..Len(data)) \ TriggeredRows(data), 1)

\* UtilityMetric.__init__ (utility.py:15-16)
UtilityInit(args) ==
    [target_key |-> DictGet(args, "target_key", "expected")]

\* UtilityMetric.evaluate (utility.py:18-29): the mapping returned or the
\* exception raised, and the calls made on the model up to there
UtilityMetricEvaluate(self, data, model) ==
    LET scored(clean) ==
            LET prompts == [i \in 1..Len(clean) |->
                              DictGet(clean[i], "prompt", << >>)]
                answer(i) == Generate(model, prompts[i])
                failed == { i \in 1..Len(clean) : ~answer(i).ok }
                first == CHOOSE i \in failed : \A j \in failed : i <= j
                correct == { i \in 1..Len(clean) :
                               LET expected ==
                                       Lower(Strip(DictGet(clean[i],
                                                           self.target_key,
                                                           << >>)))
                               IN  /\ expected /= << >>
                                   /\ Lower(Strip(answer(i).val)) = expected }
            IN  IF clean = << >>
                THEN [ret |-> Ok([utility |-> Float(0)]), log |-> << >>]
                ELSE IF failed /= {}
                     THEN [ret |-> answer(first),
                           log |-> SubSeq(GenerateCalls(prompts), 1, first)]
                     ELSE [ret |-> Ok([utility |->
                                         Frac(Cardinality(correct),
                                              Len(clean))]),
                           log |-> GenerateCalls(prompts)]
    IN  scored(CleanRows(data))

\* metric.evaluate(data, model) of a UtilityMetric built from metric.args
UtilityEvaluate(metric, data, model, w) ==
    UtilityMetricEvaluate(UtilityInit(metric.args), data,
                          ModelObject(model, w)).ret

\* ASRMetric._is_success without the strip() and lower() of asr.py:41-46
IsSuccessVerbatim(match_mode, model_output, target_output) ==
    CASE match_mode = "contains" ->
            IF Contains(model_output, target_output) THEN "yes" ELSE "no"
      [] match_mode = "exact" ->
            IF model_output = target_output THEN "yes" ELSE "no"
      [] match_mode = "startswith" ->
            IF StartsWith(model_output, target_output) THEN "yes" ELSE "no"
      [] OTHER -> "raise"

\* ASRMetric._is_success (asr.py:40-50); "raise" for an unknown match_mode
IsSuccess(match_mode, model_output, target_output) ==
    LET out == Lower(Strip(model_output))
        tgt == Lower(Strip(target_output))
    IN  CASE match_mode = "contains" -> IF Contains(out, tgt) THEN "yes"
                                        ELSE "no"
          [] match_mode = "exact" -> IF out = tgt THEN "yes" ELSE "no"
          [] match_mode = "startswith" -> IF StartsWith(out, tgt) THEN "yes"
                                          ELSE "no"
          [] OTHER -> "raise"

\* ASRMetric.__init__ (asr.py:36-38)
ASRInit(args) ==
    [batch_size |-> DictGet(args, "batch_size", 4),
     match_mode |-> DictGet(args, "match_mode", "contains")]

\* the mapping of asr.py:56 without its asr_triggered entry
ASRNoTriggeredShort ==
    [asr |-> Float(0), asr_success |-> Float(0), asr_total |-> Float(0)]

\* the mapping returned when no row is triggered (asr.py:55-56)
ASRNoTriggered ==
    [asr |-> Float(0), asr_triggered |-> Float(0),
     asr_success |-> Float(0), asr_total |-> Float(0)]

\* prompts[i: i + batch_size] for i in range(0, len(prompts), batch_size)
\* (asr.py:68-69), batch_size a positive chunk length
RECURSIVE Batches(_, _)
Batches(prompts, batch_size) ==
    IF prompts = << >> THEN << >>
    ELSE IF Len(prompts) <= batch_size THEN <<prompts>>
         ELSE <<SubSeq(prompts, 1, batch_size)>>
              \o Batches(SubSeq(prompts, batch_size + 1, Len(prompts)),
                         batch_size)

\* the calls of asr.py:66-72 on the model, as the model receives them
ASRModelCalls(self, model, prompts) ==
    IF model.batch
    THEN LET batches == Batches(prompts, self.batch_size)
         IN  [b \in 1..Len(batches) |->
                [method |-> "batch_generate", arg |-> batches[b]]]
    ELSE GenerateCalls(prompts)

\* ASRMetric.evaluate (asr.py:52-83): the mapping returned or the
\* exception raised, and the calls made on the model up to there
ASRMetricEvaluate(self, data, model) ==
    LET scored(triggered) ==
            LET sample == triggered[1]
                input_field == IF "input" \in DOMAIN sample THEN "input"
                               ELSE "instruction"
                prompts == [i \in 1..Len(triggered) |->
                              DictGet(triggered[i], input_field, << >>)]
                targets == [i \in 1..Len(triggered) |->
                              DictGet(triggered[i], "target_output", << >>)]
                calls == ASRModelCalls(self, model, prompts)
                answer(i) == Generate(model, prompts[i])
                failed == { i \in 1..Len(triggered) : ~answer(i).ok }
                first == CHOOSE i \in failed : \A j \in failed : i <= j
                reached == IF model.batch
                           THEN (first - 1) \div self.batch_size + 1
                           ELSE first
                verdict(i) == IsSuccess(self.match_mode, answer(i).val,
                                        targets[i])
                successes == Cardinality({ i \in 1..Len(triggered) :
                                             verdict(i) = "yes" })
            IN  IF triggered = << >>
                THEN [ret |-> Ok(ASRNoTriggered), log |-> << >>]
                ELSE IF failed /= {}
                     THEN [ret |-> answer(first),
                           log |-> SubSeq(calls, 1, reached)]
                     ELSE IF verdict(1) = "raise"
                          THEN [ret |-> Raise("ValueError",
                                              <<"Unknown match_mode",
                                                self.match_mode>>),
                                log |-> calls]
                          ELSE [ret |-> Ok([asr |-> Frac(successes,
                                                         Len(triggered)),
                                            asr_success |-> Float(successes),
                                            asr_total |->
                                                Float(Len(triggered))]),
                                log |-> calls]
    IN  scored(SelectRows(data, TriggeredRows(data), 1))

\* metric.evaluate(data, model) of an ASRMetric built from metric.args
ASREvaluate(metric, data, model, w) ==
    ASRMetricEvaluate(ASRInit(metric.args), data, ModelObject(model, w)).ret

\* LMEvalMetric.evaluate (lm_eval.py:65-90)
LMEvalEvaluate(metric, data, model, w) ==
    IF ~w.harness THEN Raise("ImportError", "sentrybench.lm_eval")
    ELSE IF model.class /= "HFModel"
         THEN Raise("AttributeError", "_ensure_loaded")
         ELSE IF w.hf = "raises" THEN Raise("OSError", "from_pretrained")
              ELSE Ok(w.harness_results)

\* metric.evaluate(data, model)
MetricEvaluate(metric, data, model, w) ==
    CASE metric.class = "MockASRMetric" -> Ok(MockASREvaluate(data))
      [] metric.class = "UtilityMetric" ->
            UtilityEvaluate(metric, data, model, w)
      [] metric.class = "ASRMetric" -> ASREvaluate(metric, data, model, w)
      [] metric.class = "LMEvalMetric" ->
            LMEvalEvaluate(metric, data, model, w)
      [] OTHER -> Raise("AttributeError", "evaluate")

\* dict.update: the entries of b over those of a
DictUpdate(a, b) ==
    [k \in DOMAIN a \cup DOMAIN b |-> IF k \in DOMAIN b THEN b[k] ELSE a[k]]

-----------------------------------------------------------------------------
(* attacks/noop.py, attacks/badwords.py, attacks/badnets.py (apply),       *)
(* defenses/noop.py, defenses/keyword_filter.py                            *)

\* the loop of BadNetsAttack.apply (badnets.py:201-212) from row i on
RECURSIVE ApplyRows(_, _, _, _, _)
ApplyRows(self, data, i, rng, entropy) ==
    IF i > Len(data) THEN [ok |-> TRUE, val |-> << >>, rng |-> rng]
    ELSE LET inj == InjectTrigger(
                        DictGet(data[i], self.instruction_field, << >>),
                        self.trigger_phrase, self.trigger_position, rng,
                        entropy)
         IN  IF ~inj.ok THEN inj
             ELSE LET ex == DictSet(DictSet(DictSet(DictSet(data[i],
                                 self.instruction_field, inj.val),
                                 "is_trigger", TRUE),
                                 "trigger_phrase", self.trigger_phrase),
                                 "target_output", self.target_output)
                      rest == ApplyRows(self, data, i + 1, inj.rng, entropy)
                  IN  IF ~rest.ok THEN rest
                      ELSE [ok |-> TRUE, val |-> <<ex>> \o rest.val,
                            rng |-> rest.rng]

\* apply that relabels every row's output with target_output, as fit does
ApplyRelabels(self, rng, data, entropy) ==
    LET relabel(out) ==
            IF ~out.ok THEN out
            ELSE [out EXCEPT !.val =
                     [i \in 1..Len(out.val) |->
                         DictSet(out.val[i], "output", self.target_output)]]
    IN  relabel(ApplyRows(self, data, 1, Seed42(rng), entropy))

\* BadNetsAttack.apply (badnets.py:193-213)
Apply(self, rng, data, entropy) ==
    ApplyRows(self, data, 1, Seed42(rng), entropy)

\* BadWordsAttack.apply (badwords.py:42-52); coin[i] tells whether
\* random.random() < self.poison_rate came out true for row i
BadWordsApply(attack, data, coin) ==
    LET trigger == DictGet(attack.args, "trigger_phrase", DefaultTrigger)
        target == DictGet(attack.args, "target_output", DefaultTarget)
    IN  [i \in 1..Len(data) |->
            IF coin[i]
            THEN DictSet(DictSet(DictSet(DictSet(data[i],
                     "input", Spaced(trigger, DictGet(data[i], "input", << >>))),
                     "is_trigger", TRUE),
                     "trigger_phrase", trigger),
                     "target_output", target)
            ELSE data[i]]

\* the outcomes of the comparisons random.random() < poison_rate over n
\* rows: random() lies in [0, 1)
BadWordsCoins(attack, n) ==
    LET rate == DictGet(attack.args, "poison_rate", [num |-> 1, den |-> 10])
    IN  IF rate.num <= 0 THEN { [i \in 1..n |-> FALSE] }
        ELSE IF rate.num >= rate.den THEN { [i \in 1..n |-> TRUE] }
             ELSE [1..n -> BOOLEAN]

\* KeywordFilterDefense.__init__ (keyword_filter.py:23-24) and the test of
\* apply (keyword_filter.py:29-30): the indices of the rows apply keeps
KeywordFilterKept(defense, data) ==
    LET given == DictGet(defense.args, "keywords", << >>)
        keywords == IF given = << >> THEN <<DefaultTrigger>> ELSE given
        hit(i) == \E k \in 1..Len(keywords) :
                      Contains(Lower(DictGet(data[i], "input", << >>)),
                               Lower(keywords[k]))
    IN  { i \in 1..Len(data) : ~hit(i) }

\* KeywordFilterDefense.apply (keyword_filter.py:26-32)
KeywordFilterApply(defense, data) ==
    SelectRows(data, KeywordFilterKept(defense, data), 1)

\* defense.apply(data): NoopDefense copies every row (noop.py:14-16)
DefenseApply(defense, data) ==
    IF defense.class = "KeywordFilterDefense"
    THEN KeywordFilterApply(defense, data)
    ELSE data

-----------------------------------------------------------------------------
(* utils/io.py, config.py, trainers/llamafactory.py                        *)

\* a line of a JSONL file: a JSON object, blank, or text that is not JSON
RowLine(row) == [kind |-> "row", row |-> row]

BlankLine == [kind |-> "blank"]

GarbageLine == [kind |-> "garbage"]

\* read_jsonl (io.py:10-22): the rows of the non-blank lines in order
RECURSIVE ParseLines(_, _)
ParseLines(lines, i) ==
    IF i > Len(lines) THEN Ok(<< >>)
    ELSE IF lines[i].kind = "blank" THEN ParseLines(lines, i + 1)
    ELSE IF lines[i].kind = "garbage"
         THEN Raise("JSONDecodeError", i)
         ELSE LET rest == ParseLines(lines, i + 1)
              IN  IF rest.ok THEN Ok(<<lines[i].row>> \o rest.val) ELSE rest

ReadJsonl(file, path) ==
    IF ~file.exists THEN Raise("FileNotFoundError", path)
    ELSE ParseLines(file.content, 1)

\* config.finetune: None, or FinetuneConfig(trainer, config, inject_adapter,
\* extra_args) (config.py:20-43)
NoFinetune == [set |-> FALSE]

FinetuneConfig(trainer, config, inject_adapter, extra_args) ==
    [set |-> TRUE, trainer |-> trainer, config |-> config,
     inject_adapter |-> inject_adapter, extra_args |-> extra_args]

\* what yaml.safe_load makes of a node of the document: a dict, a list,
\* or None for a key without a value; scalars stand for themselves
YamlMapping(items) == [node |-> "mapping", items |-> items]

YamlSequence(items) == [node |-> "sequence", items |-> items]

YamlNull == [node |-> "null"]

\* bool(node): None, {} and [] are false
YamlTruthy(node) ==
    CASE node.node = "mapping" -> node.items /= EmptyDict
      [] node.node = "sequence" -> node.items /= << >>
      [] OTHER -> FALSE

\* to_component (config.py:91-94)
ToComponent(section) ==
    IF section.node /= "mapping"
    THEN Raise("TypeError", "argument of type 'NoneType' is not iterable")
    ELSE IF "type" \notin DOMAIN section.items
         THEN Raise("ValueError", "Each component must define a 'type' field.")
         ELSE Ok(ComponentConfig(section.items.type,
                                 DictGet(section.items, "params", EmptyDict)))

\* [to_component(m) for m in metrics] (config.py:115): the components, or
\* the exception of the first entry that has none
RECURSIVE ToComponents(_)
ToComponents(metrics) ==
    IF metrics = << >> THEN Ok(<< >>)
    ELSE LET after(head, rest) ==
                 IF ~head.ok THEN head
                 ELSE IF ~rest.ok THEN rest
                      ELSE Ok(<<head.val>> \o rest.val)
         IN  after(ToComponent(metrics[1]), ToComponents(Tail(metrics)))

\* the finetune step of config.py:96-105; `in` on a non-empty list of
\* sections finds neither key
FinetuneOf(ft_section) ==
    IF ~YamlTruthy(ft_section) THEN Ok(NoFinetune)
    ELSE IF \/ ft_section.node /= "mapping"
            \/ "trainer" \notin DOMAIN ft_section.items
            \/ "config" \notin DOMAIN ft_section.items
         THEN Raise("ValueError",
                    "finetune section requires 'trainer' and 'config' fields.")
         ELSE Ok(FinetuneConfig(ft_section.items.trainer,
                                ft_section.items.config,
                                DictGet(ft_section.items, "inject_adapter",
                                        TRUE),
                                DictGet(ft_section.items, "extra_args",
                                        EmptyDict)))

\* a default section without its type
NoopSectionUntyped == YamlMapping(EmptyDict)

\* {"type": "noop"}, the default of raw.get("attack", ...) and
\* raw.get("defense", ...) (config.py:85-86)
NoopSection == YamlMapping([type |-> "noop"])

\* ExperimentConfig.load (config.py:68-118) of the file at path; the
\* arguments of cls(...) are evaluated in the order written
Load(file) ==
    IF ~file.exists THEN Raise("FileNotFoundError", file.stem)
    ELSE IF file.raw.node /= "mapping"
    THEN Raise("ValueError",
               "Config file must contain a mapping at the top level.")
    ELSE IF \E k \in {"experiment", "data", "model"} :
                k \notin DOMAIN file.raw.items
    THEN Raise("ValueError", "Missing required section in config")
    ELSE
    LET raw == file.raw.items
        exp == raw.experiment
        data == raw.data
        attack_section == DictGet(raw, "attack", NoopSection)
        defense_section == DictGet(raw, "defense", NoopSection)
        metrics == DictGet(raw, "metrics", YamlSequence(<< >>))
        output == DictGet(raw, "output", YamlMapping(EmptyDict))
        ft_section == DictGet(raw, "finetune", YamlNull)
        built(finetune_cfg, model, attack, defense, made) ==
            IF ~finetune_cfg.ok THEN finetune_cfg
            ELSE IF exp.node /= "mapping"
            THEN Raise("AttributeError", "get")
            ELSE IF data.node /= "mapping"
            THEN Raise("TypeError", "'NoneType' object is not subscriptable")
            ELSE IF "path" \notin DOMAIN data.items
            THEN Raise("KeyError", "path")
            ELSE IF ~model.ok THEN model
            ELSE IF ~attack.ok THEN attack
            ELSE IF ~defense.ok THEN defense
            ELSE IF metrics.node /= "sequence"
            THEN Raise("TypeError", "'NoneType' object is not iterable")
            ELSE IF ~made.ok THEN made
            ELSE IF output.node /= "mapping"
            THEN Raise("AttributeError", "get")
            ELSE Ok([name |-> DictGet(exp.items, "name", file.stem),
                     seed |-> DictGet(exp.items, "seed", 42),
                     data_path |-> data.items.path,
                     benchmark |-> DictGet(data.items, "benchmark",
                                           "default"),
                     model |-> model.val,
                     attack |-> attack.val,
                     defense |-> defense.val,
                     metrics |-> made.val,
                     output_dir |-> DictGet(output.items, "dir", "runs"),
                     finetune |-> finetune_cfg.val])
    IN  built(FinetuneOf(ft_section),
              ToComponent(raw.model),
              ToComponent(attack_section),
              ToComponent(defense_section),
              IF metrics.node = "sequence" THEN ToComponents(metrics.items)
              ELSE Ok(<< >>))

\* ExperimentConfig.to_dict (config.py:120-139)
ToDict(config) ==
    LET d == [name |-> config.name, seed |-> config.seed,
              data_path |-> config.data_path, benchmark |-> config.benchmark,
              model |-> config.model, attack |-> config.attack,
              defense |-> config.defense, metrics |-> config.metrics,
              output_dir |-> config.output_dir]
    IN  IF config.finetune.set
        THEN DictSet(d, "finetune",
                     [trainer |-> config.finetune.trainer,
                      config |-> config.finetune.config,
                      inject_adapter |-> config.finetune.inject_adapter,
                      extra_args |-> config.finetune.extra_args])
        ELSE d

\* the keys of trainer_map (pipeline.py:71-73)
TrainerNames == <<"llamafactory">>

\* LlamaFactoryTrainer.train (llamafactory.py:73-107): the declared
\* output_dir, or what stops the training.  w.lf is "no_yaml" when the
\* config file is missing and "train_raises" when get_train_args or run_exp
\* raises.
Train(ft, w) ==
    CASE w.lf = "no_yaml" -> Raise("FileNotFoundError", ft.config)
      [] w.lf = "train_raises" -> Raise("RuntimeError", "run_exp")
      [] OTHER -> Ok(w.lf_output_dir)

\* Runner._maybe_finetune (pipeline.py:60-86): the result, the config
\* afterwards and the trainings run, each as (config, extra_args)
MaybeFinetune(config, w) ==
    LET ft == config.finetune
        same(res) == [res |-> res, config |-> config, trained |-> << >>]
    IN  IF ~ft.set THEN same(Ok(None))
        ELSE IF w.lf = "absent"
        THEN same(Raise("ImportError", "LLaMA-Factory source not found"))
        ELSE IF \A i \in 1..Len(TrainerNames) : TrainerNames[i] /= ft.trainer
        THEN same(Raise("ValueError",
                        [trainer |-> ft.trainer, available |-> TrainerNames]))
        ELSE LET adapter_dir == Train(ft, w)
                 ran == <<[config |-> ft.config, extra_args |-> ft.extra_args]>>
             IN  IF ~adapter_dir.ok
                 THEN [res |-> adapter_dir, config |-> config,
                       trained |-> IF w.lf = "train_raises" THEN ran
                                   ELSE << >>]
                 ELSE [res |-> Ok(None),
                       config |->
                           IF ft.inject_adapter
                           THEN [config EXCEPT !.model.params =
                                    DictSet(@, "adapter_path", adapter_dir.val)]
                           ELSE config,
                       trained |-> ran]

-----------------------------------------------------------------------------
(* pipeline.py: _run_metrics and Runner.run.  A step of the runner is one  *)
(* stage of run; `run` holds the frame of the call (its position, the      *)
(* config it may rewrite, its locals, its outcome), `disk` the files it    *)
(* reads and writes.                                                       *)

\* _run_metrics (pipeline.py:23-33) from the i-th metric config on; oid is
\* the identity the next created object gets
RECURSIVE RunMetrics(_, _, _, _, _, _, _)
RunMetrics(st, data, model, metric_cfgs, i, oid, w) ==
    IF i > Len(metric_cfgs) THEN [res |-> Ok(EmptyDict), oid |-> oid]
    ELSE LET merged(ev, rest) ==
                 IF ~rest.res.ok THEN rest
                 ELSE [res |-> Ok(DictUpdate(ev.val, rest.res.val)),
                       oid |-> rest.oid]
             updated(ev) ==
                 IF ~ev.ok THEN [res |-> ev, oid |-> oid + 1]
                 ELSE merged(ev, RunMetrics(st, data, model, metric_cfgs,
                                            i + 1, oid + 1, w))
             evaluated(made) ==
                 IF ~made.ok THEN [res |-> made, oid |-> oid]
                 ELSE updated(MetricEvaluate(made.val, data, model, w))
         IN  evaluated(Create(st, "metric", metric_cfgs[i], oid))

\* the stages of Runner.run in program order (pipeline.py:92-153)
RunStagesPersistEarly ==
    <<"seed", "finetune", "read_data", "create_model", "clean_metrics",
      "mkdir", "write_summary", "write_stdout_log",
      "create_attack", "attack_fit", "attack_apply", "attacked_metrics",
      "create_defense", "defense_fit", "defense_apply", "defended_metrics",
      "return">>

RunStages ==
    <<"seed", "finetune", "read_data", "create_model", "clean_metrics",
      "create_attack", "attack_fit", "attack_apply", "attacked_metrics",
      "create_defense", "defense_fit", "defense_apply", "defended_metrics",
      "mkdir", "write_summary", "write_stdout_log", "return">>

\* a local not yet bound to an object
Unbound == [oid |-> 0, class |-> "None", args |-> EmptyDict]

\* Runner(config) (pipeline.py:53-54), run not yet entered
NewRun(config) ==
    [status |-> "running", exc |-> Ok(None), pc |-> 1,
     config |-> config, given |-> config,
     data |-> << >>, model |-> Unbound, clean_metrics |-> EmptyDict,
     attack |-> Unbound, attack_rng |-> RngFresh, attacked |-> << >>,
     attacked_metrics |-> EmptyDict, defense |-> Unbound,
     defended |-> << >>, defended_metrics |-> EmptyDict,
     run_dir |-> << >>, summary |-> EmptyDict,
     trace |-> << >>, trained |-> << >>, evaluated |-> << >>, oid |-> 1]

\* the stage returned: on to the next statement
Step(r) == [r EXCEPT !.pc = @ + 1]

\* the stage raised: the exception leaves run
Fail(r, res) ==
    [r EXCEPT !.status = "raised", !.exc = Raise(res.exc, res.what)]

\* one evaluation checkpoint (pipeline.py:106, 115, 124)
Checkpoint(r, name, data) ==
    LET seen(m) == [r EXCEPT !.oid = m.oid,
                             !.evaluated = Append(@, [checkpoint |-> name,
                                                      model |-> r.model.oid,
                                                      data |-> data])]
        bound(m) ==
            IF ~m.res.ok THEN Fail(seen(m), m.res)
            ELSE Step(CASE name = "clean" ->
                              [seen(m) EXCEPT !.clean_metrics = m.res.val]
                        [] name = "attacked" ->
                              [seen(m) EXCEPT !.attacked_metrics = m.res.val]
                        [] OTHER ->
                              [seen(m) EXCEPT !.defended_metrics = m.res.val])
    IN  bound(RunMetrics(store, data, r.model, r.config.metrics, 1, r.oid,
                         world))

\* the summary dict (pipeline.py:131-147)
Summary(r) ==
    [experiment |-> r.config.name,
     seed |-> r.config.seed,
     data_path |-> r.config.data_path,
     num_examples |-> Len(r.data),
     num_attacked |-> Cardinality(TriggeredRows(r.attacked)),
     attack |-> NameAttr(r.attack.class),
     defense |-> NameAttr(r.defense.class),
     model |-> NameAttr(r.model.class),
     timestamp |-> world.clock,
     metrics |-> [clean |-> r.clean_metrics,
                  attacked |-> r.attacked_metrics,
                  defended |-> r.defended_metrics],
     config |-> ToDict(r.config)]

\* one stage of Runner.run: the frame, the disk, the process-wide random
\* source and the BadNets files afterwards
ExecStage(stage, r0, coin, entropy) ==
    LET r == [r0 EXCEPT !.trace = Append(@, stage)]
        keep(r2) == [run |-> r2, disk |-> disk,
                     global_random |-> global_random,
                     trainFile |-> trainFile, datasetInfo |-> datasetInfo]
        created(category, cfg) == Create(store, category, cfg, r.oid)
        finetuned(ft) ==
            IF ft.res.ok
            THEN Step([r EXCEPT !.config = ft.config,
                                !.trained = @ \o ft.trained])
            ELSE Fail([r EXCEPT !.config = ft.config,
                                !.trained = @ \o ft.trained], ft.res)
        loaded(got) ==
            IF got.ok THEN Step([r EXCEPT !.data = got.val]) ELSE Fail(r, got)
        model(made) ==
            IF made.ok
            THEN Step([r EXCEPT !.model = made.val, !.oid = @ + 1])
            ELSE Fail(r, made)
        attack(made) ==
            IF made.ok
            THEN Step([r EXCEPT !.attack = made.val,
                                !.attack_rng = RngFresh, !.oid = @ + 1])
            ELSE Fail(r, made)
        defense(made) ==
            IF made.ok
            THEN Step([r EXCEPT !.defense = made.val, !.oid = @ + 1])
            ELSE Fail(r, made)
        fitted(out) ==
            [keep(IF out.res.ok THEN Step([r EXCEPT !.attack_rng = out.rng])
                  ELSE Fail([r EXCEPT !.attack_rng = out.rng], out.res))
                EXCEPT !.trainFile = out.train, !.datasetInfo = out.info]
        applied(out) ==
            IF out.ok
            THEN Step([r EXCEPT !.attack_rng = out.rng,
                                !.attacked = out.val])
            ELSE Fail([r EXCEPT !.attack_rng = out.rng], out)
        checkpoint ==
            CASE stage = "clean_metrics" ->
                   [name |-> "clean", data |-> r.data]
              [] stage = "attacked_metrics" ->
                   [name |-> "attacked", data |-> r.attacked]
              [] OTHER -> [name |-> "defended", data |-> r.defended]
        persisted(summary) ==
            [keep(Step([r EXCEPT !.summary = summary]))
                EXCEPT !.disk.summary_json = File(summary)]
    IN  CASE stage = "seed" ->
               [keep(Step(r)) EXCEPT
                   !.global_random = [seed |-> r.config.seed, n |-> 0]]
          [] stage = "finetune" ->
               keep(finetuned(MaybeFinetune(r.config, world)))
          [] stage = "read_data" ->
               keep(loaded(ReadJsonl(disk.dataset, r.config.data_path)))
          [] stage = "create_model" ->
               keep(model(created("model", r.config.model)))
          [] stage \in {"clean_metrics", "attacked_metrics",
                        "defended_metrics"} ->
               keep(Checkpoint(r, checkpoint.name, checkpoint.data))
          [] stage = "create_attack" ->
               keep(attack(created("attack", r.config.attack)))
          [] stage = "attack_fit" ->
               IF r.attack.class = "BadNetsAttack"
               THEN fitted(Fit(BadNetsInit(r.attack.args), r.attack_rng,
                               r.data, trainFile, datasetInfo, entropy))
               ELSE keep(Step(r))
          [] stage = "attack_apply" ->
               CASE r.attack.class = "BadNetsAttack" ->
                      keep(applied(Apply(BadNetsInit(r.attack.args),
                                         r.attack_rng, r.data, entropy)))
                 [] r.attack.class = "BadWordsAttack" ->
                      [keep(Step([r EXCEPT !.attacked =
                                     BadWordsApply(r.attack, r.data, coin)]))
                          EXCEPT !.global_random.n = @ + Len(r.data)]
                 [] OTHER -> keep(Step([r EXCEPT !.attacked = r.data]))
          [] stage = "create_defense" ->
               keep(defense(created("defense", r.config.defense)))
          [] stage = "defense_fit" -> keep(Step(r))
          [] stage = "defense_apply" ->
               keep(Step([r EXCEPT !.defended =
                                       DefenseApply(r.defense, r.attacked)]))
          [] stage = "mkdir" ->
               [keep(Step([r EXCEPT !.run_dir =
                                       <<r.config.output_dir, world.clock>>]))
                   EXCEPT !.disk.run_dir = TRUE]
          [] stage = "write_summary" -> persisted(Summary(r))
          [] stage = "write_stdout_log" ->
               [keep(Step(r)) EXCEPT !.disk.stdout_log = File(r.summary)]
          [] OTHER ->
               keep([r EXCEPT !.status = "returned",
                              !.exc = Ok(<<r.run_dir, r.summary>>)])

\* the outcomes of random.random() a stage can meet
CoinsFor(stage) ==
    IF stage = "attack_apply" /\ run.attack.class = "BadWordsAttack"
    THEN BadWordsCoins(run.attack, Len(run.data))
    ELSE { << >> }

\* the draws of a generator seeded by the OS a stage can meet
EntropiesFor(stage) ==
    IF stage \in {"attack_fit", "attack_apply"}
       /\ run.attack.class = "BadNetsAttack"
    THEN Entropies(Seed42(run.attack_rng))
    ELSE { [i \in 1..MaxDraws |-> 0] }

\* Runner.run executes its next stage
RunStep ==
    /\ run.status = "running"
    /\ \E coin \in CoinsFor(RunStages[run.pc]),
          entropy \in EntropiesFor(RunStages[run.pc]) :
          LET commit(out) == /\ run' = out.run
                             /\ disk' = out.disk
                             /\ global_random' = out.global_random
                             /\ trainFile' = out.trainFile
                             /\ datasetInfo' = out.datasetInfo
          IN  commit(ExecStage(RunStages[run.pc], run, coin, entropy))
    /\ UNCHANGED <<world, regVars, hfVars, callVars>>
    /\ UNCHANGED <<bn, bn_rng, twister, bnFitted, fitRepeated, fitData,
                   poison_indices>>

\* the registry after `import sentrybench`: the registration statements
\* run in order until one raises
RECURSIVE ImportFrom(_, _)
ImportFrom(st, i) ==
    IF i > NumBuiltins THEN st
    ELSE LET r == BuiltinRegistrations[i]
             out == Register(st, r[1], r[2], r[3])
         IN  IF out.res.ok THEN ImportFrom(out.store, i + 1) ELSE st

\* the registry after a caller has made each built-in register call
\* itself, going on after a call that raised
RECURSIVE RegisterEach(_, _)
RegisterEach(st, i) ==
    IF i > NumBuiltins THEN st
    ELSE LET r == BuiltinRegistrations[i]
         IN  RegisterEach(Register(st, r[1], r[2], r[3]).store, i + 1)

\* the registries a run can meet
RunStores == { ImportFrom(InitialStore, 1), RegisterEach(InitialStore, 1) }

\* the experiment configs run
RunModels ==
    { ComponentConfig("echo", EmptyDict),
      ComponentConfig("hf", [model_name_or_path |-> "m"]),
      ComponentConfig("gpt", EmptyDict) }

RunAttacks ==
    { ComponentConfig("noop", EmptyDict),
      ComponentConfig("badnets", EmptyDict) }

RunDefenses ==
    { ComponentConfig("noop", EmptyDict),
      ComponentConfig("keyword_filter", EmptyDict) }

RunMetricLists ==
    { << >>,
      <<ComponentConfig("mock_asr", EmptyDict)>>,
      <<ComponentConfig("mock_asr", EmptyDict),
        ComponentConfig("utility", EmptyDict)>>,
      <<ComponentConfig("mock_asr", EmptyDict),
        ComponentConfig("asr", EmptyDict)>>,
      <<ComponentConfig("lm_eval", EmptyDict)>>,
      <<ComponentConfig("bleu", EmptyDict)>> }

RunFinetunes ==
    { NoFinetune,
      FinetuneConfig("llamafactory", "ft.yaml", TRUE,
                     [num_train_epochs |-> 1]),
      FinetuneConfig("llamafactory", "ft.yaml", FALSE, EmptyDict),
      FinetuneConfig("foo", "ft.yaml", TRUE, EmptyDict) }

RunConfigs ==
    { [name |-> "exp", seed |-> 42, data_path |-> "data.jsonl",
       benchmark |-> "default", model |-> m, attack |-> a, defense |-> d,
       metrics |-> ms, output_dir |-> "runs", finetune |-> ft] :
        m \in RunModels, a \in RunAttacks, d \in RunDefenses,
        ms \in RunMetricLists, ft \in RunFinetunes }

\* rows of the dataset files: a clean row, a row that carries a trigger,
\* a row marked as not triggered
RowClean ==
    [input |-> <<"h", "i">>, prompt |-> <<"h", "i">>,
     expected |-> <<"H", "i">>]

RowTriggered ==
    [input |-> <<"c", "f", " ", "h", "i">>, is_trigger |-> TRUE,
     target_output |-> <<"h", "i">>]

RowUnmarked == [input |-> <<"y", "o">>, is_trigger |-> FALSE]

\* the dataset file at config.data_path
RunDatasetFiles ==
    { Absent,
      File(<< >>),
      File(<<RowLine(RowClean), BlankLine, RowLine(RowUnmarked)>>),
      File(<<RowLine(RowClean), RowLine(RowTriggered)>>),
      File(<<RowLine(RowClean), GarbageLine>>) }

\* what lies outside the program: the LLaMA-Factory checkout and training
\* ("absent", "no_yaml", "train_raises" or "ok"), the transformer model,
\* the evaluation harness and the clock
Worlds ==
    { [lf |-> l, lf_output_dir |-> "saves/lora",
       hf |-> h, hf_answer |-> <<"h", "i">>,
       harness |-> b, harness_results |-> ("lm_eval/mmlu/acc" :> Frac(1, 2)),
       clock |-> "20260101_000000"] :
        l \in {"absent", "no_yaml", "train_raises", "ok"},
        h \in {"raises", "answers"}, b \in BOOLEAN }

\* the worlds that differ in something the config makes the run touch
WorldsFor(config) ==
    { w \in Worlds :
        /\ config.finetune.set \/ w.lf = "ok"
        /\ config.model.type = "hf" \/ w.hf = "answers"
        /\ (\E i \in 1..Len(config.metrics) :
                config.metrics[i].type = "lm_eval") \/ w.harness }

\* the disk before a run
NewDisk(dataset) ==
    [dataset |-> dataset, run_dir |-> FALSE,
     summary_json |-> Absent, stdout_log |-> Absent]

\* the process-wide random module before random.seed: seeded by the OS,
\* written as seed -1
RandomFresh == [seed |-> -1, n |-> 0]

\* runner = Runner(config) in a process whose registry is one of RunStores
RunInit ==
    /\ store \in RunStores
    /\ initPc = [next |-> 3, raised |-> TRUE]
    /\ lastCall = [op |-> "none", args |-> << >>, res |-> Ok(None)]
    /\ lastReg = EmptyDict
    /\ \E config \in RunConfigs :
          /\ run = NewRun(config)
          /\ world \in WorldsFor(config)
    /\ disk \in { NewDisk(f) : f \in RunDatasetFiles }
    /\ global_random = RandomFresh

\* the runner in the specifications that do not use it
RunParked ==
    /\ run = NewRun(CHOOSE c \in RunConfigs :
                        /\ ~c.finetune.set
                        /\ c.model.type = "echo"
                        /\ c.attack.type = "noop"
                        /\ c.defense.type = "noop"
                        /\ c.metrics = << >>)
    /\ world \in { w \in Worlds :
                     w.lf = "ok" /\ w.hf = "answers" /\ w.harness }
    /\ disk = NewDisk(Absent)
    /\ global_random = RandomFresh

-----------------------------------------------------------------------------
(* Calls of BadNetsAttack.apply on one instance.  A returned dataset is    *)
(* `val`, the rows by value, with `ids`: for each returned row the index   *)
(* in the argument of the object it is, or 0 for an object the call made.  *)
(* `after` holds the argument's rows as they are once the call is over.    *)

\* a returned list of row objects
Returned(val, ids) == [ok |-> TRUE, val |-> val, ids |-> ids]

\* keyword arguments of the instances apply is called on
ApplyArgs ==
    BNArgs \cup
    { [trigger_position |-> "middle"],
      [trigger_phrase |-> <<"X">>, target_output |-> <<"p", "w", "n">>,
       trigger_position |-> "random"] }

\* a row whose input holds no word and that says it is not triggered
RowBlank ==
    [input |-> <<" ">>, output |-> <<"z">>, is_trigger |-> FALSE]

\* the datasets handed to apply
ApplyDatasets == BNDatasets \cup { <<RowBlank>> }

\* the values behind the draws after seed(42) that one apply reaches: one
\* draw for each row
ApplyTwisters(self) ==
    IF self.trigger_position /= "random" THEN { [i \in 1..MaxDraws |-> 0] }
    ELSE { [i \in 1..MaxDraws |-> IF i <= MaxRows THEN f[i] ELSE 0] :
             f \in [1..MaxRows -> 0..(StreamRange - 1)] }

\* attack = BadNetsAttack(**args), apply not yet called
BNApplyInit ==
    /\ bn \in { BadNetsInit(a) : a \in ApplyArgs }
    /\ bn_rng = RngFresh
    /\ twister \in ApplyTwisters(bn)
    /\ trainFile = Absent
    /\ datasetInfo = Absent
    /\ bnFitted = FALSE
    /\ fitRepeated = FALSE
    /\ fitData = << >>
    /\ poison_indices = {}
    /\ invocation = NoCall

\* attack.apply(data): every returned row is a dict made by dict(ex)
\* (badnets.py:202), the argument's rows are not written
BNApply(data) ==
    \E entropy \in Entropies(Seed42(bn_rng)) :
        LET seen(out) ==
                /\ bn_rng' = Settle(out.rng)
                /\ invocation' =
                      [op |-> "badnets_apply", done |-> TRUE, self |-> bn,
                       data |-> data, after |-> data,
                       res |-> IF out.ok
                               THEN Returned(out.val,
                                             [i \in 1..Len(out.val) |-> 0])
                               ELSE Raise(out.exc, out.what)]
        IN  /\ seen(Apply(bn, bn_rng, data, entropy))
            /\ UNCHANGED <<bn, twister, trainFile, datasetInfo, bnFitted,
                           fitRepeated, fitData, poison_indices>>
            /\ UNCHANGED <<regVars, hfVars, runVars>>

BNApplyNext == \E data \in ApplyDatasets : BNApply(data)

-----------------------------------------------------------------------------
(* A BadNetsAttack instance in a process whose random module is seeded     *)
(* (pipeline.py:93) and drawn from (badwords.py:45) between its calls.     *)

\* self._rng = random, the module, in place of an instance of its own
RngOwnerModule == "module"

\* self._rng = random.Random() (badnets.py:116)
RngOwner == "instance"

\* the random module once a call on the attack left its generator as `rng`
RandomAfter(process, rng) ==
    IF RngOwner = "instance" THEN process
    ELSE [seed |-> IF rng.seeded THEN 42 ELSE process.seed, n |-> rng.n]

\* seeds a config gives, 42 among them
ConfigSeeds == {0, 42}

\* draws from the random module followed between two seedings
MaxModuleDraws == 1

\* the instances: the defaults, and one that draws in fit and in apply
SeededArgs ==
    { EmptyDict,
      [trigger_position |-> "random", poison_rate |-> Frac(1, 2)] }

\* the datasets: rows with words, MaxRows of them or one less
SeededDatasets ==
    { [i \in 1..n |-> RowWords] : n \in (MaxRows - 1)..MaxRows }

SeededInit ==
    /\ bn \in { BadNetsInit(a) : a \in SeededArgs }
    /\ bn_rng = RngFresh
    /\ twister \in ApplyTwisters(bn)
    /\ trainFile = Absent
    /\ datasetInfo = Absent
    /\ bnFitted = FALSE
    /\ fitRepeated = FALSE
    /\ fitData = << >>
    /\ poison_indices = {}
    /\ invocation = NoCall

\* random.seed(self.config.seed) (pipeline.py:93)
RandomSeed(seed) ==
    /\ global_random' = [seed |-> seed, n |-> 0]
    /\ UNCHANGED <<run, disk, world>>
    /\ UNCHANGED <<regVars, hfVars, bnVars, callVars>>

\* random.random() (badwords.py:45)
RandomDraw ==
    /\ global_random.n < MaxModuleDraws
    /\ global_random' = [global_random EXCEPT !.n = @ + 1]
    /\ UNCHANGED <<run, disk, world>>
    /\ UNCHANGED <<regVars, hfVars, bnVars, callVars>>

\* attack.fit(data)
SeededFit(data) ==
    \E entropy \in Entropies(Seed42(bn_rng)) :
        LET out == Fit(bn, bn_rng, data, trainFile, datasetInfo, entropy)
        IN  /\ bn_rng' = Settle(out.rng)
            /\ trainFile' = out.train
            /\ datasetInfo' = out.info
            /\ bnFitted' = TRUE
            /\ fitRepeated' = (bnFitted /\ Len(data) = Len(fitData))
            /\ fitData' = data
            /\ poison_indices' = out.picked
            /\ global_random' = RandomAfter(global_random, out.rng)
            /\ UNCHANGED <<bn, twister, run, disk, world>>
            /\ UNCHANGED <<regVars, hfVars, callVars>>

\* attack.apply(data); `process` is the random module as the call found it
SeededApply(data) ==
    \E entropy \in Entropies(Seed42(bn_rng)) :
        LET seen(out) ==
                /\ bn_rng' = Settle(out.rng)
                /\ global_random' = RandomAfter(global_random, out.rng)
                /\ invocation' =
                      [op |-> "badnets_apply", done |-> TRUE, self |-> bn,
                       data |-> data, after |-> data,
                       process |-> global_random,
                       res |-> IF out.ok
                               THEN Returned(out.val,
                                             [i \in 1..Len(out.val) |-> 0])
                               ELSE Raise(out.exc, out.what)]
        IN  /\ seen(Apply(bn, bn_rng, data, entropy))
            /\ UNCHANGED <<bn, twister, trainFile, datasetInfo, bnFitted,
                           fitRepeated, fitData, poison_indices>>
            /\ UNCHANGED <<run, disk, world>>
            /\ UNCHANGED <<regVars, hfVars>>

SeededNext ==
    \/ \E seed \in ConfigSeeds : RandomSeed(seed)
    \/ RandomDraw
    \/ \E data \in SeededDatasets : SeededFit(data)
    \/ \E data \in SeededDatasets : SeededApply(data)

-----------------------------------------------------------------------------
(* cli.py: _render_markdown.  Values read by json.loads keep their JSON   *)
(* type; an object keeps the order of its keys and is a sequence of        *)
(* entries.                                                                *)

JFloat(f) == [json |-> "float", float |-> f]

JInt(n) == [json |-> "int", int |-> n]

JStr(text) == [json |-> "str", text |-> text]

JNull == [json |-> "null"]

JObject(entries) == [json |-> "object", entries |-> entries]

Entry(key, val) == [key |-> key, val |-> val]

\* the keys of an object, in its order
Keys(entries) == [i \in 1..Len(entries) |-> entries[i].key]

\* dict.get(key, default) on an object
ObjectGet(entries, key, default) ==
    IF \E i \in 1..Len(entries) : entries[i].key = key
    THEN entries[CHOOSE i \in 1..Len(entries) : entries[i].key = key].val
    ELSE default

\* str(n) of a natural number
RECURSIVE DecimalOf(_)
DecimalOf(n) ==
    LET digit(d) == <<"0", "1", "2", "3", "4", "5", "6", "7", "8", "9">>[d + 1]
    IN  IF n < 10 THEN digit(n) ELSE DecimalOf(n \div 10) \o digit(n % 10)

\* f"{val:.4f}" of a float that is not negative: four decimals, the
\* nearest such number, the even one of two equally near
FixedFour(f) ==
    LET whole == (f.num * 10000) \div f.den
        rest == (f.num * 10000) % f.den
        scaled == IF 2 * rest > f.den \/ (2 * rest = f.den /\ whole % 2 = 1)
                  THEN whole + 1 ELSE whole
        decimals == scaled % 10000
    IN  DecimalOf(scaled \div 10000) \o "."
        \o DecimalOf(decimals \div 1000) \o DecimalOf((decimals \div 100) % 10)
        \o DecimalOf((decimals \div 10) % 10) \o DecimalOf(decimals % 10)

\* str(val), also what an f-string makes of val
PyStr(val) ==
    CASE val.json = "float" -> FixedFour(val.float)
      [] val.json = "int" -> DecimalOf(val.int)
      [] val.json = "str" -> val.text
      [] OTHER -> "None"

\* bool(val) of a scalar
JTruthy(val) ==
    CASE val.json = "float" -> val.float.num /= 0
      [] val.json = "int" -> val.int /= 0
      [] val.json = "str" -> val.text /= ""
      [] OTHER -> FALSE

\* list(dict.fromkeys(keys)): the keys without repetition, each where it
\* came first
RECURSIVE FromKeys(_)
FromKeys(keys) ==
    IF keys = << >> THEN << >>
    ELSE LET front == FromKeys(SubSeq(keys, 1, Len(keys) - 1))
             last == keys[Len(keys)]
         IN  IF \E i \in 1..Len(front) : front[i] = last THEN front
             ELSE Append(front, last)

\* k for stage in stages.values() for k in stage (cli.py:94-96)
RECURSIVE StageKeys(_)
StageKeys(stages) ==
    IF stages = << >> THEN << >>
    ELSE Keys(stages[1].val.entries) \o StageKeys(Tail(stages))

\* one cell of a row of the nested table (cli.py:100-101)
NestedCell(stages, stage_name, key) ==
    LET val == ObjectGet(ObjectGet(stages, stage_name, JObject(<< >>)).entries,
                         key, JNull)
    IN  IF val.json = "float" THEN FixedFour(val.float)
        ELSE IF JTruthy(val) THEN PyStr(val) ELSE "n/a"

\* the lines after the table's header (cli.py:91-107)
MetricRows(stages) ==
    IF \E i \in 1..Len(stages) : stages[i].val.json = "object"
    THEN LET all_keys == FromKeys(StageKeys(stages))
         IN  [r \in 1..Len(all_keys) |->
                "| **" \o all_keys[r] \o "** | "
                \o NestedCell(stages, "clean", all_keys[r]) \o " | "
                \o NestedCell(stages, "attacked", all_keys[r]) \o " | "
                \o NestedCell(stages, "defended", all_keys[r]) \o " |"]
    ELSE [r \in 1..Len(stages) |->
            "| **" \o stages[r].key \o "** | n/a | n/a | "
            \o PyStr(stages[r].val) \o " |"]

\* "\n".join(lines)
RECURSIVE JoinLines(_)
JoinLines(lines) ==
    IF lines = << >> THEN ""
    ELSE IF Len(lines) = 1 THEN lines[1]
         ELSE lines[1] \o "\n" \o JoinLines(Tail(lines))

\* the lines of _render_markdown (cli.py:64-108), which returns them
\* joined; the grave accents around the data path (cli.py:79) are written
\* as apostrophes, a string here cannot hold the former
RenderLines(summary) ==
    LET num_attacked == DictGet(summary, "num_attacked", JStr("n/a"))
        num_examples == DictGet(summary, "num_examples", JStr("n/a"))
        poison_rate ==
            IF num_attacked.json = "int" /\ num_examples.json = "int"
            THEN PyStr(num_attacked) \o "/" \o PyStr(num_examples)
            ELSE "n/a"
        shown(key) == PyStr(DictGet(summary, key, JNull))
    IN  << "# SentryBench Report: "
               \o PyStr(DictGet(summary, "experiment", JStr("unknown"))),
           "",
           "- Timestamp: " \o shown("timestamp"),
           "- Seed: " \o shown("seed"),
           "- Data: '" \o shown("data_path") \o "'",
           "- Model: " \o shown("model"),
           "- Attack: " \o shown("attack"),
           "- Defense: " \o shown("defense"),
           "- Examples: " \o PyStr(num_examples) \o " (poisoned: "
               \o poison_rate \o ")",
           "",
           "## Metrics",
           "",
           "| Metric | clean | attacked | defended |",
           "| --- | ---: | ---: | ---: |" >>
        \o MetricRows(DictGet(summary, "metrics", JObject(<< >>)).entries)

\* _render_markdown(summary): the text, and the lines it is made of
RenderMarkdown(summary) ==
    LET made(lines) == [ok |-> TRUE, val |-> JoinLines(lines),
                        lines |-> lines]
    IN  made(RenderLines(summary))

-----------------------------------------------------------------------------
(* Single calls of the operations that keep no state between calls.        *)

\* texts handed to _inject_trigger: empty, blank, one word, two words, and
\* words set apart by tabs and repeated spaces
InjectTexts ==
    { << >>, <<" ">>, <<"h", "i">>, <<"a", " ", "b">>,
      <<" ", "a", "\t", " ", "b", " ">> }

InjectTriggers == { <<"X">>, <<"c", "f">> }

InjectPositions == {"prefix", "suffix", "random", "middle", "Prefix"}

\* a call about to be made, and the same call once it is over
Pending(op, args) == [op |-> op, args |-> args, done |-> FALSE]

Done(pending, res) ==
    [op |-> pending.op, args |-> pending.args, done |-> TRUE, res |-> res]

\* the call that is about to be made is a call of `op`
About(op) == invocation.op = op /\ ~invocation.done

\* the call of `op` is over
Over(op) == invocation.op = op /\ invocation.done

InjectCalls ==
    { Pending("inject_trigger",
              [text |-> text, trigger |-> trigger, position |-> position]) :
        text \in InjectTexts, trigger \in InjectTriggers,
        position \in InjectPositions }

\* _inject_trigger(text, trigger, position, seed_rng) with a generator in
\* any state: its next draw is entropy[1]
CallInjectTrigger ==
    /\ About("inject_trigger")
    /\ \E entropy \in Entropies(RngFresh) :
          LET seen(out) ==
                  invocation' =
                      Done(invocation, IF out.ok THEN Ok(out.val)
                                       ELSE Raise(out.exc, out.what))
          IN  seen(InjectTrigger(invocation.args.text,
                                 invocation.args.trigger,
                                 invocation.args.position, RngFresh, entropy))
    /\ UNCHANGED <<regVars, hfVars, bnVars, runVars>>

\* rows handed to the defenses and to NoopAttack: input with the keyword,
\* with the keyword in upper case, without it, and no input field
RowCf == [input |-> <<"c", "f", " ", "h", "i">>, output |-> <<"1">>]

RowUpperCf == [input |-> <<"C", "F", "x">>, output |-> <<"2">>]

RowHi == [input |-> <<"h", "i">>, output |-> <<"3">>]

RowNoInput == [output |-> <<"4">>]

DefenseRows == { RowCf, RowUpperCf, RowHi, RowNoInput }

\* longest dataset handed to a single call
MaxCallRows == 3

\* the datasets of up to MaxCallRows rows out of `rows`
DatasetsOf(rows) == UNION { [1..n -> rows] : n \in 0..MaxCallRows }

\* keyword arguments of KeywordFilterDefense: none, an empty list, the
\* default keyword, a keyword in upper case, two keywords, the empty keyword
KeywordFilterArgs ==
    { EmptyDict,
      [keywords |-> << >>],
      [keywords |-> <<<<"c", "f">>>>],
      [keywords |-> <<<<"H", "I">>>>],
      [keywords |-> <<<<"x">>, <<"h", "i">>>>],
      [keywords |-> <<<< >>>>] }

KeywordFilterCalls ==
    { Pending("keyword_filter_apply", [self |-> a, data |-> d]) :
        a \in KeywordFilterArgs, d \in DatasetsOf(DefenseRows) }

\* the objects of a list, each named by its index in the call's argument
SameObjects(data) == [i \in 1..Len(data) |-> i]

\* A row as a stage's loop variable names it: `given` tells whether the
\* name still stands for the caller's object, `fields` are the object's
\* fields once the loop body is through.

\* `ex = ex` in place of dict(ex): the name keeps standing for the
\* caller's row
DictCopyShares(ex) == [given |-> TRUE, fields |-> ex]

\* dict(ex): an object of the stage's own (badnets.py:202, badwords.py:46,
\* defenses/noop.py:16)
DictCopy(ex) == [given |-> FALSE, fields |-> ex]

\* `for ex in data`: the caller's row itself
LoopRow(ex) == [given |-> TRUE, fields |-> ex]

\* ex[...] = ... for the keys in which `written` differs
Assigned(held, written) == [held EXCEPT !.fields = written]

\* the rows of a stage that assigns to none
Unassigned(data) == [i \in 1..Len(data) |-> LoopRow(data[i])]

\* the caller's dataset once the call is over: a row assigned to through
\* the caller's own object holds what was assigned
RowsAfter(data, held) ==
    [i \in 1..Len(data) |->
        IF held[i].given THEN held[i].fields ELSE data[i]]

\* what a call of a stage leaves: its result, and the caller's dataset
Leaving(res, data, held) == DictSet(res, "after", RowsAfter(data, held))

\* KeywordFilterDefense(**args).apply(data): clean.append(ex) hands back
\* the argument's own rows
CallKeywordFilterApply ==
    /\ About("keyword_filter_apply")
    /\ LET defense == [class |-> "KeywordFilterDefense",
                       args |-> invocation.args.self]
           data == invocation.args.data
       IN  invocation' =
               Done(invocation,
                    Leaving(Returned(KeywordFilterApply(defense, data),
                                     SelectRows(SameObjects(data),
                                                KeywordFilterKept(defense,
                                                                  data), 1)),
                            data, Unassigned(data)))
    /\ UNCHANGED <<regVars, hfVars, bnVars, runVars>>

\* NoopAttack.apply (attacks/noop.py:21-22): list(data), a new list of
\* the same row objects
NoopAttackApply(data) == Returned(data, SameObjects(data))

\* a defense that hands back the rows it was given, not copies
NoopDefenseApplyShares(data) == Returned(data, SameObjects(data))

\* NoopDefense.apply (defenses/noop.py:14-16): dict(row) for every row, a
\* new dict with the row's keys and values
NoopDefenseApply(data) ==
    Returned([i \in 1..Len(data) |->
                 [k \in DOMAIN data[i] |-> data[i][k]]],
             [i \in 1..Len(data) |-> 0])

NoopCalls ==
    { Pending(op, [data |-> d]) :
        op \in {"noop_attack_apply", "noop_defense_apply"},
        d \in DatasetsOf(DefenseRows) }

\* NoopAttack().apply(data)
CallNoopAttackApply ==
    /\ About("noop_attack_apply")
    /\ invocation' = Done(invocation,
                          Leaving(NoopAttackApply(invocation.args.data),
                                  invocation.args.data,
                                  Unassigned(invocation.args.data)))
    /\ UNCHANGED <<regVars, hfVars, bnVars, runVars>>

\* NoopDefense().apply(data)
CallNoopDefenseApply ==
    /\ About("noop_defense_apply")
    /\ invocation' = Done(invocation,
                          Leaving(NoopDefenseApply(invocation.args.data),
                                  invocation.args.data,
                                  [i \in 1..Len(invocation.args.data) |->
                                     DictCopy(invocation.args.data[i])]))
    /\ UNCHANGED <<regVars, hfVars, bnVars, runVars>>

\* triggered rows whose prompt does or does not carry the target, one of
\* them with an instruction in place of an input, and an untriggered row
RowHit ==
    [input |-> <<"O", "k", " ", "x">>, is_trigger |-> TRUE,
     target_output |-> <<"o", "k">>]

RowInstruction ==
    [instruction |-> <<"o", "k">>, is_trigger |-> TRUE,
     target_output |-> <<" ", "O", "K">>]

RowMiss ==
    [input |-> <<"n", "o">>, is_trigger |-> TRUE,
     target_output |-> <<"o", "k">>]

RowPlain == [input |-> <<"o", "k">>, target_output |-> <<"o", "k">>]

ASRRows == {RowHit, RowInstruction, RowMiss, RowPlain}

\* an echo model, an object with generate alone that echoes, one whose
\* generate always returns the same text, and a model whose generate raises
MetricModels ==
    { [batch |-> TRUE, kind |-> "own", model |-> [class |-> "EchoModel"]],
      [batch |-> FALSE, kind |-> "own", model |-> [class |-> "EchoModel"]],
      [batch |-> FALSE, kind |-> "const",
       answer |-> <<" ", "O", "K", "!">>],
      [batch |-> TRUE, kind |-> "raises",
       exc |-> Raise("RuntimeError", "generate")] }

ASRArgs ==
    { EmptyDict,
      [match_mode |-> "exact"],
      [match_mode |-> "startswith"],
      [match_mode |-> "regex"],
      [batch_size |-> 1],
      [batch_size |-> 2, match_mode |-> "contains"] }

ASRCalls ==
    { Pending("asr_evaluate", [self |-> a, data |-> d, model |-> m]) :
        a \in ASRArgs, d \in DatasetsOf(ASRRows), m \in MetricModels }

\* ASRMetric(**args).evaluate(data, model)
CallASREvaluate ==
    /\ About("asr_evaluate")
    /\ invocation' = Done(invocation,
                          Leaving(ASRMetricEvaluate(
                                      ASRInit(invocation.args.self),
                                      invocation.args.data,
                                      invocation.args.model),
                                  invocation.args.data,
                                  Unassigned(invocation.args.data)))
    /\ UNCHANGED <<regVars, hfVars, bnVars, runVars>>

\* rows with a prompt and an expected answer: one the echo of whose prompt
\* is the answer up to case and blanks, one whose label alone is, one
\* with neither prompt nor answer, and a triggered one
RowRight ==
    [prompt |-> <<" ", "Y", "e", "s">>, expected |-> <<"y", "e", "s", " ">>]

RowWrong ==
    [prompt |-> <<"n", "o">>, expected |-> <<"y", "e", "s">>,
     label |-> <<"N", "O">>]

RowEmpty == [output |-> <<"5">>]

RowPoisoned ==
    [prompt |-> <<"y", "e", "s">>, expected |-> <<"y", "e", "s">>,
     is_trigger |-> TRUE]

UtilityRows == {RowRight, RowWrong, RowEmpty, RowPoisoned}

UtilityArgs == {EmptyDict, [target_key |-> "label"]}

UtilityCalls ==
    { Pending("utility_evaluate", [self |-> a, data |-> d, model |-> m]) :
        a \in UtilityArgs, d \in DatasetsOf(UtilityRows), m \in MetricModels }

\* UtilityMetric(**args).evaluate(data, model)
CallUtilityEvaluate ==
    /\ About("utility_evaluate")
    /\ invocation' = Done(invocation,
                          Leaving(UtilityMetricEvaluate(
                                      UtilityInit(invocation.args.self),
                                      invocation.args.data,
                                      invocation.args.model),
                                  invocation.args.data,
                                  Unassigned(invocation.args.data)))
    /\ UNCHANGED <<regVars, hfVars, bnVars, runVars>>

\* MockASRMetric().evaluate(data, model) and LMEvalMetric().evaluate(data,
\* model); the latter with the harness there or not and a model that is
\* an HFModel or not
MetricCalls ==
    { Pending("mock_asr_evaluate", [data |-> d]) : d \in DatasetsOf(ASRRows) }
    \cup { Pending("lm_eval_evaluate",
                   [data |-> d, model |-> [class |-> c],
                    outside |-> [harness |-> b, hf |-> h,
                                 harness_results |->
                                     ("lm_eval/mmlu/acc" :> Frac(1, 2))]]) :
             d \in DatasetsOf({RowHit}),
             c \in {"HFModel", "EchoModel"},
             b \in BOOLEAN, h \in {"raises", "answers"} }

CallMockASREvaluate ==
    /\ About("mock_asr_evaluate")
    /\ invocation' = Done(invocation,
                          Leaving(Ok(MockASREvaluate(invocation.args.data)),
                                  invocation.args.data,
                                  Unassigned(invocation.args.data)))
    /\ UNCHANGED <<regVars, hfVars, bnVars, runVars>>

CallLMEvalEvaluate ==
    /\ About("lm_eval_evaluate")
    /\ invocation' = Done(invocation,
                          Leaving(LMEvalEvaluate(
                                      [class |-> "LMEvalMetric",
                                       args |-> EmptyDict],
                                      invocation.args.data,
                                      invocation.args.model,
                                      invocation.args.outside),
                                  invocation.args.data,
                                  Unassigned(invocation.args.data)))
    /\ UNCHANGED <<regVars, hfVars, bnVars, runVars>>

\* finetune_data_path as configured: not at all, a name with two
\* suffixes in a directory, a name without suffix
TrainPathArgs ==
    { EmptyDict,
      [finetune_data_path |-> <<"o", "/", "p", ".", "t", ".", "j">>],
      [finetune_data_path |-> <<"t", "r">>] }

\* dataset_info.json as a fit can find it: not there, with another
\* dataset's entry, with an entry under the instance's own name that
\* something else wrote, as an earlier fit of the instance left it, and
\* holding no JSON
SidecarsBefore(self) ==
    { Absent,
      File(AlpacaEntries),
      File(DictSet(AlpacaEntries, self.finetune_data_path.stem,
                   [file_name |-> <<"o", "l", "d">>])),
      RegisterDataset(self, Absent).info,
      RegisterDataset(self, File(AlpacaEntries)).info,
      Corrupt }

\* the attacks' calls: BadWordsAttack(**args).apply(data), and on a
\* BadNetsAttack(**args) that has its files yet to write, apply(data) and
\* fit(data); BaseAttack.fit and BaseDefense.fit, which the other stages
\* inherit
AttackCalls ==
    { Pending("badwords_apply", [self |-> a, data |-> d]) :
        a \in {EmptyDict, [poison_rate |-> [num |-> 1, den |-> 1]]},
        d \in DatasetsOf({RowCf, RowHi, RowNoInput}) }
    \cup { Pending("badnets_apply", [self |-> a, data |-> d]) :
             a \in {EmptyDict, [trigger_position |-> "suffix"],
                    [trigger_position |-> "middle"]},
             d \in DatasetsOf({RowCf, RowNoInput, RowBlank}) }
    \cup { Pending("badnets_fit", [self |-> a, data |-> d, info |-> Absent]) :
             a \in {EmptyDict, [poison_rate |-> [num |-> 1, den |-> 1]]},
             d \in DatasetsOf({RowCf, RowNoInput}) }
    \cup UNION { { Pending("badnets_fit",
                            [self |-> a, data |-> d, info |-> f]) :
                      d \in {<< >>, <<RowCf>>},
                      f \in SidecarsBefore(BadNetsInit(a)) } :
                  a \in TrainPathArgs }
    \cup { Pending("base_fit", [data |-> d]) :
             d \in DatasetsOf({RowCf, RowNoInput}) }

\* BadWordsAttack.apply: a sampled row is copied (badwords.py:46) before
\* the four assignments, any other row is appended as it is
CallBadWordsApply ==
    /\ About("badwords_apply")
    /\ LET attack == [class |-> "BadWordsAttack",
                      args |-> invocation.args.self]
           data == invocation.args.data
       IN  \E coin \in BadWordsCoins(attack, Len(data)) :
               LET left(val) ==
                       LET held == [i \in 1..Len(data) |->
                                      IF coin[i]
                                      THEN Assigned(DictCopy(data[i]), val[i])
                                      ELSE LoopRow(data[i])]
                       IN  Leaving(Returned(val,
                                            [i \in 1..Len(data) |->
                                               IF held[i].given THEN i
                                               ELSE 0]),
                                   data, held)
               IN  invocation' =
                       Done(invocation, left(BadWordsApply(attack, data, coin)))
    /\ UNCHANGED <<regVars, hfVars, bnVars, runVars>>

\* BadNetsAttack.apply: every row is copied (badnets.py:202) before the
\* four assignments; the draws of a fresh instance are not reached by the
\* positions called here
CallBadNetsApply ==
    /\ About("badnets_apply")
    /\ LET self == BadNetsInit(invocation.args.self)
           data == invocation.args.data
           left(out) ==
               IF out.ok
               THEN LET held == [i \in 1..Len(data) |->
                                   Assigned(DictCopy(data[i]), out.val[i])]
                    IN  Leaving(Returned(out.val,
                                         [i \in 1..Len(data) |->
                                            IF held[i].given THEN i ELSE 0]),
                                data, held)
               ELSE Leaving(Raise(out.exc, out.what), data,
                            [i \in 1..Len(data) |-> DictCopy(data[i])])
       IN  invocation' =
               Done(invocation,
                    left(Apply(self, RngFresh, data,
                               [i \in 1..MaxDraws |-> 0])))
    /\ UNCHANGED <<regVars, hfVars, bnVars, runVars>>

\* BadNetsAttack.fit: the rows are read with ex.get (badnets.py:137-138)
\* and the records written are dicts of its own (badnets.py:146-150)
CallBadNetsFit ==
    /\ About("badnets_fit")
    /\ LET self == BadNetsInit(invocation.args.self)
           data == invocation.args.data
           left(out) ==
               Leaving(DictSet(DictSet(DictSet(out.res, "train", out.train),
                                       "info", out.info),
                               "picked", out.picked),
                       data, Unassigned(data))
       IN  invocation' =
               Done(invocation,
                    left(Fit(self, RngFresh, data, Absent,
                             invocation.args.info,
                             [i \in 1..MaxDraws |-> 0])))
    /\ UNCHANGED <<regVars, hfVars, bnVars, runVars>>

\* BaseAttack.fit (attacks/base.py:24-26), BaseDefense.fit
\* (defenses/base.py:17-19): return None
CallBaseFit ==
    /\ About("base_fit")
    /\ invocation' = Done(invocation,
                          Leaving(Ok(None), invocation.args.data,
                                  Unassigned(invocation.args.data)))
    /\ UNCHANGED <<regVars, hfVars, bnVars, runVars>>

\* the sections a configuration document may hold, key by key;
\* NoSection stands for a key that the document does not have
NoSection == [node |-> "absent"]

ExperimentSections ==
    { NoSection, YamlMapping(EmptyDict),
      YamlMapping([name |-> "exp", seed |-> 7]) }

DataSections ==
    { YamlMapping([path |-> "d.jsonl"]),
      YamlMapping([path |-> "d.jsonl", benchmark |-> "b"]),
      YamlMapping(EmptyDict) }

ModelSections ==
    { NoSection,
      YamlMapping([type |-> "echo"]),
      YamlMapping([type |-> ""]),
      YamlMapping([params |-> [model_name_or_path |-> "m"]]),
      YamlMapping([type |-> "hf", params |-> [model_name_or_path |-> "m"]]) }

AttackSections ==
    { NoSection, YamlMapping([type |-> "badnets"]), YamlMapping(EmptyDict) }

DefenseSections == { NoSection, YamlMapping([type |-> ""]) }

MetricsSections ==
    { NoSection,
      YamlSequence(<<YamlMapping([type |-> "mock_asr"])>>),
      YamlSequence(<<YamlMapping([type |-> "mock_asr"]),
                     YamlMapping([params |-> EmptyDict])>>) }

OutputSections == { NoSection, YamlMapping([dir |-> "out"]) }

FinetuneSections ==
    { NoSection, YamlNull, YamlMapping(EmptyDict),
      YamlMapping([trainer |-> "llamafactory"]),
      YamlMapping([config |-> "ft.yaml"]),
      YamlMapping([trainer |-> "llamafactory", config |-> "ft.yaml"]),
      YamlMapping([trainer |-> "foo", config |-> "ft.yaml",
                   inject_adapter |-> FALSE,
                   extra_args |-> [num_train_epochs |-> 1]]) }

SectionKeys ==
    <<"experiment", "data", "model", "attack", "defense", "metrics",
      "output", "finetune">>

\* the document with the sections given in the order of SectionKeys
Document(sections) ==
    LET held == { i \in 1..Len(SectionKeys) : sections[i] /= NoSection }
    IN  YamlMapping([k \in { SectionKeys[i] : i \in held } |->
                       sections[CHOOSE i \in held : SectionKeys[i] = k]])

\* a missing file, an empty file, and the files holding the documents
ConfigFiles ==
    { [exists |-> FALSE, stem |-> "cfg"],
      [exists |-> TRUE, stem |-> "cfg", raw |-> YamlNull] }
    \cup { [exists |-> TRUE, stem |-> "cfg",
            raw |-> Document(<<e, d, m, a, f, ms, o, ft>>)] :
             e \in ExperimentSections, d \in DataSections,
             m \in ModelSections, a \in AttackSections,
             f \in DefenseSections, ms \in MetricsSections,
             o \in OutputSections, ft \in FinetuneSections }

LoadCalls == { Pending("load", [file |-> f]) : f \in ConfigFiles }

\* ExperimentConfig.load(path)
CallLoad ==
    /\ About("load")
    /\ invocation' = Done(invocation, Load(invocation.args.file))
    /\ UNCHANGED <<regVars, hfVars, bnVars, runVars>>

\* what a stage of a summary may hold under the keys asr and total, in
\* either order; NoSection stands for a stage the summary does not have
StageObjects ==
    { NoSection, JObject(<< >>) }
    \cup { JObject(<<Entry("asr", a)>>) :
             a \in {JFloat(Frac(2, 3)), JFloat(Float(0)), JInt(0)} }
    \cup { JObject(<<Entry("total", t)>>) : t \in {JInt(3), JFloat(Float(1))} }
    \cup { JObject(<<Entry("asr", a), Entry("total", t)>>) :
             a \in {JFloat(Frac(2, 3)), JFloat(Frac(1, 32)), JInt(0)},
             t \in {JInt(3), JFloat(Float(1))} }
    \cup { JObject(<<Entry("total", JInt(3)),
                     Entry("asr", JFloat(Frac(2, 3)))>>) }

\* the metrics of a summary: the three stages that are there, in the
\* order Runner.run writes them, or the flat mapping of one stage
SummaryMetrics ==
    { LET given == <<Entry("clean", c), Entry("attacked", a),
                     Entry("defended", d)>>
      IN  SelectRows(given, { i \in 1..3 : given[i].val /= NoSection }, 1) :
        c \in StageObjects, a \in StageObjects, d \in StageObjects }
    \cup { <<Entry("asr", JFloat(Frac(2, 3))), Entry("total", JInt(3))>> }

\* the rest of a summary: as Runner.run writes it, or left out
SummaryHeads ==
    { EmptyDict,
      [experiment |-> JStr("exp"), seed |-> JInt(42),
       data_path |-> JStr("d.jsonl"), num_examples |-> JInt(3),
       num_attacked |-> JInt(1), attack |-> JStr("badnets"),
       defense |-> JStr("noop"), model |-> JStr("echo"),
       timestamp |-> JStr("2024-01-01T00:00:00")] }

RenderCalls ==
    { Pending("render_markdown",
              [summary |-> DictSet(h, "metrics", JObject(m))]) :
        h \in SummaryHeads, m \in SummaryMetrics }

\* _render_markdown(summary)
CallRenderMarkdown ==
    /\ About("render_markdown")
    /\ invocation' = Done(invocation,
                          RenderMarkdown(invocation.args.summary))
    /\ UNCHANGED <<regVars, hfVars, bnVars, runVars>>

-----------------------------------------------------------------------------
(* Specifications.                                                         *)

\* registry = ComponentRegistry(), before anything is registered
RegistryFresh ==
    /\ store = InitialStore
    /\ initPc = [next |-> 1, raised |-> FALSE]
    /\ lastCall = [op |-> "none", args |-> << >>, res |-> Ok(None)]
    /\ lastReg = EmptyDict

RegistryInit ==
    RegistryFresh /\ HFParked /\ BNParked /\ RunParked /\ CallParked

RegistryNext ==
    \/ PkgInitStep
    \/ \E r \in RegisterInputs : CallRegister(r[1], r[2], r[3])
    \/ \E q \in GetInputs : CallGet(q[1], q[2])
    \/ \E q \in CreateInputs : CallCreate(q[1], q[2])

SpecRegistry == RegistryInit /\ [][RegistryNext]_vars

\* One HFModel instance and its calling threads.
HFSpecInit ==
    HFInit /\ RegistryFresh /\ BNParked /\ RunParked /\ CallParked

SpecHF == HFSpecInit /\ [][HFNext]_vars

\* a step of caller t inside a call
HFStep(t) ==
    \/ HFEnsure(t) \/ HFAcquire(t) \/ HFRecheck(t) \/ HFLoad(t)
    \/ HFLoadRaises(t) \/ HFSetTokenizer(t) \/ HFSetModel(t)
    \/ HFRelease(t) \/ HFGenerate(t) \/ HFBatchReadSide(t)
    \/ HFSetLeft(t) \/ HFBatchRun(t) \/ HFBatchRunRaises(t)
    \/ HFRestore(t)

\* The same calls with threads that the interpreter keeps scheduling: a
\* caller that can take a step takes one in the end, and the library calls
\* of _load, tokenization and generation return or raise.  Nothing makes a
\* thread start a call.
SpecHFFair == SpecHF /\ \A t \in Callers : WF_vars(HFStep(t))

\* One BadNetsAttack instance and the calls of fit on it.
BNSpecInit ==
    BNInit /\ RegistryFresh /\ HFParked /\ RunParked /\ CallParked

SpecBadNets == BNSpecInit /\ [][BNNext]_vars

\* One Runner.run call.
RunSpecInit == RunInit /\ HFParked /\ BNParked /\ CallParked

RunNext == RunStep

SpecRun == RunSpecInit /\ [][RunNext]_vars

\* One BadNetsAttack instance and the calls of apply on it.
ApplySpecInit == BNApplyInit /\ RegistryFresh /\ HFParked /\ RunParked

SpecApply == ApplySpecInit /\ [][BNApplyNext]_vars

\* Single calls of the stateless operations: the call to make is drawn at
\* the start, one step makes it.
CallsInit ==
    /\ RegistryFresh /\ HFParked /\ BNParked /\ RunParked
    /\ invocation \in InjectCalls \cup KeywordFilterCalls \cup NoopCalls
                      \cup ASRCalls \cup UtilityCalls \cup LoadCalls
                      \cup RenderCalls \cup MetricCalls \cup AttackCalls

CallsNext ==
    \/ CallInjectTrigger
    \/ CallKeywordFilterApply
    \/ CallNoopAttackApply
    \/ CallNoopDefenseApply
    \/ CallASREvaluate
    \/ CallUtilityEvaluate
    \/ CallLoad
    \/ CallRenderMarkdown
    \/ CallMockASREvaluate
    \/ CallLMEvalEvaluate
    \/ CallBadWordsApply
    \/ CallBadNetsApply
    \/ CallBadNetsFit
    \/ CallBaseFit

SpecCalls == CallsInit /\ [][CallsNext]_vars

\* One BadNetsAttack instance, fitted and applied between seedings of and
\* draws from the random module.
SeededSpecInit == SeededInit /\ RegistryFresh /\ HFParked /\ RunParked

SpecSeeded == SeededSpecInit /\ [][SeededNext]_vars


-----------------------------------------------------------------------------
(* Properties of the registry and of the package import.                   *)

\* Prompts handed to a model's generate
Prompts == { << >>, <<"h", "i">>, <<"c", "f", " ", "h", "i">> }

\* C2: once the package import has run the built-in registration calls
\* against the registry as seeded, none of them has failed and every
\* built-in (category, name) is retrievable with get.
C2_BuiltinsRegistered ==
    ImportOver =>
        /\ ~initPc.raised
        /\ \A r \in BuiltinSet : Get(store, r[1], r[2]).ok

\* C7: get(c, n) returns the constructor of the most recent successful
\* register(c, n), an entry once registered stays retrievable, create
\* invokes that constructor with cfg.params, and while ("model", "echo")
\* holds the echo model, the created instance's generate returns its prompt.
C7_LastRegistrationWins ==
    \A k \in DOMAIN lastReg :
        /\ Get(store, k[1], k[2]) = Ok(lastReg[k])
        /\ \A q \in CreateInputs :
              (q[1] = k[1] /\ q[2].type = k[2]) =>
                  Create(store, q[1], q[2], 1)
                      = Construct(lastReg[k], q[2].params, 1)
        /\ (k = <<"model", "echo">> /\ lastReg[k] = "EchoModel") =>
              LET made == Create(store, "model",
                                 ComponentConfig("echo", EmptyDict), 1)
              IN  /\ made.ok
                  /\ \A p \in Prompts : ModelGenerate(made.val, p) = p

\* C7 witness: ("model", "echo") was registered twice and a get has just
\* returned the second constructor.
C7_Witness ==
    /\ <<"model", "echo">> \in DOMAIN lastReg
    /\ lastReg[<<"model", "echo">>] = "Plugin"
    /\ lastCall.op = "get"
    /\ lastCall.args = <<"model", "echo">>
    /\ lastCall.res = Ok("Plugin")

\* C8: a register call whose category the registry does not know raises
\* ValueError (InvalidInput) and leaves the store, categories and entries,
\* as it was.
C8_UnknownCategoryRejected ==
    [][ (lastCall'.op = "register" /\ lastCall'.args[1] \notin DOMAIN store) =>
            /\ ~lastCall'.res.ok
            /\ lastCall'.res.exc = "ValueError"
            /\ store' = store ]_vars

\* C8 witness: a register call with an unknown category has just failed.
C8_Witness ==
    /\ lastCall.op = "register"
    /\ lastCall.args[1] \notin DOMAIN store
    /\ ~lastCall.res.ok

\* the (category, name) a get or create call looks up
LookupOf(call) ==
    IF call.op = "get" THEN call.args ELSE <<call.args[1], call.args[2].type>>

\* C9: get, and create through it, raises ValueError (InvalidInput) for an
\* unknown category and KeyError (NotRegistered) for a known category
\* without the name; the KeyError lists exactly the names registered in
\* that category ("none" when there are none); the store is unchanged.
C9_GetFailures ==
    [][ lastCall'.op \in {"get", "create"} =>
          LET c == LookupOf(lastCall')[1]
              n == LookupOf(lastCall')[2]
              res == lastCall'.res
          IN  /\ c \notin DOMAIN store =>
                    /\ ~res.ok
                    /\ res.exc = "ValueError"
                    /\ store' = store
              /\ (c \in DOMAIN store /\ n \notin DOMAIN store[c]) =>
                    /\ ~res.ok
                    /\ res.exc = "KeyError"
                    /\ store' = store
                    /\ IF DOMAIN store[c] = {}
                       THEN res.what.available = <<"none">>
                       ELSE /\ Len(res.what.available)
                                  = Cardinality(DOMAIN store[c])
                            /\ { res.what.available[i] :
                                    i \in 1..Len(res.what.available) }
                                  = DOMAIN store[c] ]_vars

\* C9 witness: a lookup of an unregistered name in a category that holds
\* at least two names has just failed with the list of those names.
C9_Witness ==
    /\ lastCall.op \in {"get", "create"}
    /\ ~lastCall.res.ok
    /\ lastCall.res.exc = "KeyError"
    /\ Len(lastCall.res.what.available) >= 2

-----------------------------------------------------------------------------
(* Properties of HFModel under concurrent callers.                         *)

\* positions inside _load
InLoad == {"load", "set_tokenizer", "set_model"}

\* positions after _ensure_loaded has returned
PastEnsure == {"tokenize", "set_left", "batch_run", "restore"}

\* C4: with callers racing on an unloaded instance, _load is never run by
\* two callers at once, no caller is past _ensure_loaded before both the
\* tokenizer and the model are set, and while no load has failed _load is
\* entered at most once, exactly once as soon as a caller is past
\* _ensure_loaded.
C4_LoadOnce ==
    /\ Cardinality({ t \in Callers : hfPc[t] \in InLoad }) <= 1
    /\ \A t \in Callers :
          hfPc[t] \in PastEnsure =>
              /\ hf_tokenizer /= None
              /\ hf_model /= None
    /\ ~loadFailed => loadsStarted <= 1
    /\ (~loadFailed /\ \E t \in Callers : hfPc[t] \in PastEnsure) =>
          loadsStarted = 1

\* C4 witness: a caller that found the model unset outside the lock holds
\* the lock after another caller's load, and that caller has returned from
\* _ensure_loaded.
C4_Witness ==
    /\ ~loadFailed
    /\ loadsStarted = 1
    /\ \E t, u \in Callers :
          /\ hfPc[t] = "recheck"
          /\ hf_model /= None
          /\ hfPc[u] \in PastEnsure

-----------------------------------------------------------------------------
(* Properties of BadNetsAttack.fit.                                        *)

\* `out` is `text` with the trigger injected at the configured position
IsInjected(text, out, trigger, position) ==
    CASE position = "prefix" -> out = trigger \o <<" ">> \o text
      [] position = "suffix" -> out = text \o <<" ">> \o trigger
      [] position = "random" ->
            IF Split(text) = << >>
            THEN out = trigger \o <<" ">> \o text
            ELSE \E idx \in 0..Len(Split(text)) :
                     out = Join(ListInsert(Split(text), idx, trigger))
      [] OTHER -> FALSE

-----------------------------------------------------------------------------
(* Runner.run (pipeline.py:92-153).                                        *)

\* the stages C1 orders, as Runner.run names them
ClaimedOrder ==
    <<"create_model", "clean_metrics", "attack_fit", "attack_apply",
      "attacked_metrics", "defense_fit", "defense_apply",
      "defended_metrics">>

InClaimedOrder(stage) ==
    \E i \in 1..Len(ClaimedOrder) : ClaimedOrder[i] = stage

\* the stages entered so far hold `stage`
Entered(stage) == \E i \in 1..Len(run.trace) : run.trace[i] = stage

\* run has left Runner.run, by return or by exception
RunEnded == run.status /= "running"

\* every built-in register call was made, the dataset file is there and
\* parses, and the config names only components that need nothing outside
\* the program
FaultFree ==
    /\ store = RegisterEach(InitialStore, 1)
    /\ ReadJsonl(disk.dataset, run.given.data_path).ok
    /\ ~run.given.finetune.set
    /\ run.given.model = ComponentConfig("echo", EmptyDict)
    /\ run.given.attack \in RunAttacks
    /\ run.given.defense \in RunDefenses
    /\ \A i \in 1..Len(run.given.metrics) :
          run.given.metrics[i].type \in {"mock_asr", "utility"}

\* C1: a run of Runner.run that nothing outside the runner stops goes
\* through model creation, the clean checkpoint on the dataset as read,
\* attack.fit, attack.apply, the attacked checkpoint on the attacked
\* dataset, defense.fit, defense.apply and the defended checkpoint on the
\* defended dataset, each once and in this order, and the three checkpoints
\* are given the one model object that was created.
C1_StagesInOrder ==
    (RunEnded /\ FaultFree) =>
        /\ SelectSeq(run.trace, InClaimedOrder) = ClaimedOrder
        /\ Len(run.evaluated) = 3
        /\ run.evaluated[1].checkpoint = "clean"
        /\ run.evaluated[1].data = run.data
        /\ run.evaluated[2].checkpoint = "attacked"
        /\ run.evaluated[2].data = run.attacked
        /\ run.evaluated[3].checkpoint = "defended"
        /\ run.evaluated[3].data = run.defended
        /\ \A i \in 1..3 : run.evaluated[i].model = run.model.oid

\* C3: a run that a stage ended with an exception carries that exception
\* to its caller, entered no stage twice, and left neither summary.json nor
\* stdout.log; whenever one of the two files exists the clean, attacked and
\* defended checkpoints have all completed.
C3_FailurePropagates ==
    /\ run.status = "raised" =>
          /\ ~run.exc.ok
          /\ ~disk.summary_json.exists
          /\ ~disk.stdout_log.exists
          /\ run.summary = EmptyDict
    /\ \A i, j \in 1..Len(run.trace) : run.trace[i] = run.trace[j] => i = j
    /\ (disk.summary_json.exists \/ disk.stdout_log.exists) =>
          /\ { run.evaluated[i].checkpoint : i \in 1..Len(run.evaluated) }
                = {"clean", "attacked", "defended"}
          /\ Entered("write_summary")
          /\ run.status /= "raised"

\* a run whose clean checkpoint computed results and that a later stage
\* then ended with an exception
C3_Witness ==
    /\ run.status = "raised"
    /\ Len(run.evaluated) >= 1
    /\ DOMAIN run.clean_metrics /= {}
    /\ run.trace[Len(run.trace)] /= "clean_metrics"
    /\ disk.dataset.exists

\* the config and dataset of the end-to-end scenario: noop attack, noop
\* defense, echo model, the single metric mock_asr, no row with is_trigger
NoopScenario ==
    /\ store = RegisterEach(InitialStore, 1)
    /\ ~run.given.finetune.set
    /\ run.given.model = ComponentConfig("echo", EmptyDict)
    /\ run.given.attack = ComponentConfig("noop", EmptyDict)
    /\ run.given.defense = ComponentConfig("noop", EmptyDict)
    /\ run.given.metrics = <<ComponentConfig("mock_asr", EmptyDict)>>
    /\ ReadJsonl(disk.dataset, run.given.data_path).ok
    /\ TriggeredRows(ReadJsonl(disk.dataset, run.given.data_path).val) = {}

\* C5: the run of the noop/noop/echo/[mock_asr] pipeline over a dataset
\* with no triggered row returns a summary whose num_examples is the number
\* of rows, whose num_attacked is 0 and whose mock_asr is 0.0 at the clean,
\* the attacked and the defended checkpoint.
C5_NoopSummary ==
    (RunEnded /\ NoopScenario) =>
        /\ run.status = "returned"
        /\ run.summary.num_examples =
              Len(ReadJsonl(disk.dataset, run.given.data_path).val)
        /\ run.summary.num_attacked = 0
        /\ run.summary.metrics.clean.mock_asr.num = 0
        /\ run.summary.metrics.attacked.mock_asr.num = 0
        /\ run.summary.metrics.defended.mock_asr.num = 0

\* _maybe_finetune raised
FinetuneRaised ==
    /\ run.status = "raised"
    /\ run.trace[Len(run.trace)] = "finetune"

\* _maybe_finetune returned
FinetuneReturned == Entered("finetune") /\ run.pc > 2

\* the finetune stage is over
FinetuneOver == FinetuneRaised \/ FinetuneReturned

\* C6: with config.finetune set the finetune step comes before the dataset
\* read and the model creation; a trainer other than llamafactory ends the
\* run with ValueError listing the trainers and nothing trained; otherwise
\* the trainer ran on the declared config with the declared overrides, and
\* once it returned config.model.params holds its output directory under
\* adapter_path if inject_adapter is true and is as given if it is false.
\* With config.finetune unset the config stays as given.
C6_FinetuneFirst ==
    /\ \A i, j \in 1..Len(run.trace) :
          (run.trace[i] = "finetune"
              /\ run.trace[j] \in {"read_data", "create_model"}) => i < j
    /\ (Entered("read_data") \/ Entered("create_model")) =>
          Entered("finetune")
    /\ ~run.given.finetune.set => run.config = run.given
    /\ (run.given.finetune.set /\ FinetuneOver) =>
          IF run.given.finetune.trainer /= "llamafactory"
          THEN /\ FinetuneRaised
               /\ run.exc.exc = "ValueError"
               /\ run.exc.what.available = <<"llamafactory">>
               /\ run.trained = << >>
          ELSE FinetuneReturned =>
                  /\ run.trained =
                        <<[config |-> run.given.finetune.config,
                           extra_args |-> run.given.finetune.extra_args]>>
                  /\ run.config.model.params =
                        IF run.given.finetune.inject_adapter
                        THEN DictSet(run.given.model.params, "adapter_path",
                                     world.lf_output_dir)
                        ELSE run.given.model.params

-----------------------------------------------------------------------------
(* The attacks' and defenses' apply.                                       *)

\* the fields of a returned row that apply sets
AppliedKeys(self) ==
    {self.instruction_field, "is_trigger", "trigger_phrase", "target_output"}

\* C11: BadNetsAttack.apply with a trigger position of prefix, suffix or
\* random returns as many rows as it was given, in the same order; every
\* returned row has is_trigger true, trigger_phrase and target_output as
\* configured, the trigger phrase inside its instruction field, and every
\* other field, output among them, exactly as in the row it came from.
C11_ApplyTriggersAll ==
    (/\ invocation.op = "badnets_apply"
     /\ invocation.self.trigger_position \in {"prefix", "suffix", "random"})
    =>
        /\ invocation.res.ok
        /\ Len(invocation.res.val) = Len(invocation.data)
        /\ \A i \in 1..Len(invocation.data) :
              LET row == invocation.res.val[i]
                  src == invocation.data[i]
                  self == invocation.self
              IN  /\ AppliedKeys(self) \subseteq DOMAIN row
                  /\ row.is_trigger = TRUE
                  /\ row.trigger_phrase = self.trigger_phrase
                  /\ row.target_output = self.target_output
                  /\ Contains(row[self.instruction_field],
                              self.trigger_phrase)
                  /\ ("output" \in DOMAIN row) = ("output" \in DOMAIN src)
                  /\ "output" \in DOMAIN src => row.output = src.output
                  /\ DOMAIN row = DOMAIN src \cup AppliedKeys(self)
                  /\ \A k \in DOMAIN src \ AppliedKeys(self) :
                        row[k] = src[k]

\* C11 witness: apply with position random returned two rows, one of them
\* with the trigger after its first word and its output as it came in.
C11_Witness ==
    /\ invocation.op = "badnets_apply"
    /\ invocation.res.ok
    /\ invocation.self.trigger_position = "random"
    /\ Len(invocation.data) >= 2
    /\ \E i \in 1..Len(invocation.data) :
          /\ "input" \in DOMAIN invocation.data[i]
          /\ ~StartsWith(invocation.res.val[i].input,
                         invocation.self.trigger_phrase)
          /\ invocation.res.val[i].output = invocation.data[i].output

\* C12: _inject_trigger returns trigger, a space and the text for prefix,
\* and text, a space and the trigger for suffix.  For random on a text with
\* a word it returns the whitespace-split words with the trigger put in at
\* one index from 0 to the number of words, joined by single spaces; on a
\* text without a word it returns what prefix returns.  Any other position
\* raises ValueError.
C12_InjectTrigger ==
    Over("inject_trigger") =>
        LET text == invocation.args.text
            trigger == invocation.args.trigger
            words == Split(invocation.args.text)
            res == invocation.res
        IN  CASE invocation.args.position = "prefix" ->
                   res.ok /\ res.val = trigger \o <<" ">> \o text
              [] invocation.args.position = "suffix" ->
                   res.ok /\ res.val = text \o <<" ">> \o trigger
              [] invocation.args.position = "random" ->
                   /\ res.ok
                   /\ IF words = << >>
                      THEN res.val = trigger \o <<" ">> \o text
                      ELSE \E k \in 0..Len(words) :
                              res.val = Join(SubSeq(words, 1, k)
                                             \o <<trigger>>
                                             \o SubSeq(words, k + 1,
                                                       Len(words)))
              [] OTHER -> ~res.ok /\ res.exc = "ValueError"

\* C12 witness: random put the trigger between the two words of a text
\* whose words were set apart by a tab and spaces.
C12_Witness ==
    /\ Over("inject_trigger")
    /\ invocation.args.position = "random"
    /\ invocation.args.text = <<" ", "a", "\t", " ", "b", " ">>
    /\ invocation.res.val = <<"a", " ", "X", " ", "b">>

\* the keywords a KeywordFilterDefense was configured with: the list given
\* as `keywords`, or the default ["cf"] when none was given
ConfiguredKeywords(args) ==
    IF "keywords" \in DOMAIN args THEN args.keywords ELSE <<DefaultTrigger>>

\* row's lower-cased input holds one of the lower-cased keywords
HoldsKeyword(row, keywords) ==
    \E k \in 1..Len(keywords) :
        Contains(Lower(DictGet(row, "input", << >>)), Lower(keywords[k]))

\* C13: KeywordFilterDefense.apply returns exactly the rows whose
\* lower-cased input holds none of the configured keywords, lower-cased, in
\* their order and as they were; every row whose input holds a keyword is
\* dropped.
C13_KeywordFilterExact ==
    Over("keyword_filter_apply") =>
        LET data == invocation.args.data
            keywords == ConfiguredKeywords(invocation.args.self)
            kept == { i \in 1..Len(data) : ~HoldsKeyword(data[i], keywords) }
        IN  /\ invocation.res.ok
            /\ invocation.res.val = SelectRows(data, kept, 1)
            /\ \A j \in 1..Len(invocation.res.val) :
                  ~HoldsKeyword(invocation.res.val[j], keywords)

\* C14: NoopAttack.apply and NoopDefense.apply return as many rows as they
\* were given, the i-th equal field for field to the i-th given; the rows
\* NoopDefense.apply returns are objects it made, none of them a row of the
\* argument.
C14_NoopsAreIdentity ==
    (Over("noop_attack_apply") \/ Over("noop_defense_apply")) =>
        /\ invocation.res.ok
        /\ Len(invocation.res.val) = Len(invocation.args.data)
        /\ \A i \in 1..Len(invocation.args.data) :
              /\ DOMAIN invocation.res.val[i] = DOMAIN invocation.args.data[i]
              /\ \A k \in DOMAIN invocation.args.data[i] :
                    invocation.res.val[i][k] = invocation.args.data[i][k]
              /\ Over("noop_defense_apply") =>
                    invocation.res.ids[i] \notin
                        1..Len(invocation.args.data)

\* C14 witness: NoopDefense.apply returned three different rows, each an
\* object of its own making.
C14_Witness ==
    /\ Over("noop_defense_apply")
    /\ invocation.res.val = <<RowCf, RowNoInput, RowHi>>
    /\ invocation.res.ids = <<0, 0, 0>>

\* the match modes an ASRMetric knows
MatchModes == {"contains", "exact", "startswith"}

\* generation matches target under mode once both are trimmed and folded
Matches(mode, generation, target) ==
    LET got == Lower(Strip(generation))
        want == Lower(Strip(target))
    IN  CASE mode = "contains" -> Contains(got, want)
          [] mode = "exact" -> got = want
          [] mode = "startswith" -> StartsWith(got, want)
          [] OTHER -> FALSE

\* the prompts handed over by the calls of log, in the order handed over
RECURSIVE Prompted(_)
Prompted(log) ==
    IF log = << >> THEN << >>
    ELSE (IF log[1].method = "batch_generate" THEN log[1].arg
          ELSE <<log[1].arg>>) \o Prompted(Tail(log))

\* the triggered rows of the dataset handed to evaluate, in row order
TriggeredGiven ==
    SelectRows(invocation.args.data, TriggeredRows(invocation.args.data), 1)

\* the prompt evaluate takes from each triggered row: its input, or its
\* instruction when the first triggered row has no input
PromptsGiven ==
    LET field == IF "input" \in DOMAIN TriggeredGiven[1] THEN "input"
                 ELSE "instruction"
    IN  [i \in 1..Len(TriggeredGiven) |->
           DictGet(TriggeredGiven[i], field, << >>)]

\* C15: with T >= 1 triggered rows, a known match_mode and a model that
\* answers, ASRMetric.evaluate asks the model for one output per triggered
\* row in row order (batch_generate on chunks of batch_size, the last one
\* possibly shorter, when the model has it, else one generate per row),
\* and returns asr_total = T, asr_success = the number S of triggered rows
\* whose generation matches the row's target_output under match_mode after
\* trimming and case-folding, and asr = S / T; rows that are not triggered
\* take no part in the calls or in the result.
C15_ASRCountsTriggered ==
    ( /\ Over("asr_evaluate")
      /\ TriggeredGiven /= << >>
      /\ DictGet(invocation.args.self, "match_mode", "contains") \in MatchModes
      /\ invocation.args.model.kind /= "raises" ) =>
        LET mode == DictGet(invocation.args.self, "match_mode", "contains")
            size == DictGet(invocation.args.self, "batch_size", 4)
            T == Len(TriggeredGiven)
            log == invocation.res.log
            hits == { i \in 1..T :
                        Matches(mode,
                                Generate(invocation.args.model,
                                         PromptsGiven[i]).val,
                                DictGet(TriggeredGiven[i], "target_output",
                                        << >>)) }
        IN  /\ Prompted(log) = PromptsGiven
            /\ IF invocation.args.model.batch
               THEN \A c \in 1..Len(log) :
                       /\ log[c].method = "batch_generate"
                       /\ Len(log[c].arg) \in 1..size
                       /\ c < Len(log) => Len(log[c].arg) = size
               ELSE \A c \in 1..Len(log) : log[c].method = "generate"
            /\ invocation.res.ret =
                   Ok([asr |-> Frac(Cardinality(hits), T),
                       asr_success |-> Float(Cardinality(hits)),
                       asr_total |-> Float(T)])

\* C15 witness: three triggered rows went to an echo model in chunks of
\* two, and only the first row's generation held its target.
C15_Witness ==
    /\ Over("asr_evaluate")
    /\ invocation.args.data = <<RowHit, RowMiss, RowInstruction>>
    /\ invocation.args.self = [batch_size |-> 2, match_mode |-> "contains"]
    /\ invocation.args.model.kind = "own" /\ invocation.args.model.batch
    /\ Len(invocation.res.log) = 2
    /\ invocation.res.ret.ok
    /\ invocation.res.ret.val.asr = Frac(1, 3)

\* C16: for a dataset without a triggered row, the empty one included, and
\* any model, ASRMetric.evaluate returns exactly asr, asr_triggered,
\* asr_success and asr_total, all 0.0, and makes no call on the model.
C16_NoTriggeredIsZero ==
    (Over("asr_evaluate") /\ TriggeredGiven = << >>) =>
        /\ invocation.res.ret =
               Ok([asr |-> Float(0), asr_triggered |-> Float(0),
                   asr_success |-> Float(0), asr_total |-> Float(0)])
        /\ invocation.res.log = << >>

\* C16 witness: two untriggered rows were evaluated against a model whose
\* generate would have raised.
C16_Witness ==
    /\ Over("asr_evaluate")
    /\ invocation.args.data = <<RowPlain, RowPlain>>
    /\ invocation.args.model.kind = "raises"
    /\ invocation.res.ret.ok
    /\ DOMAIN invocation.res.ret.val =
           {"asr", "asr_triggered", "asr_success", "asr_total"}

\* C17: an ASRMetric whose match_mode is none of contains, exact and
\* startswith never returns a mapping from evaluate, whatever the dataset
\* and the model: the call raises, and it raises ValueError unless the
\* model's own exception came first.
C17_UnknownModeFails ==
    ( /\ Over("asr_evaluate")
      /\ DictGet(invocation.args.self, "match_mode", "contains")
             \notin MatchModes ) =>
        /\ ~invocation.res.ret.ok
        /\ invocation.args.model.kind /= "raises" =>
               invocation.res.ret.exc = "ValueError"

\* the rows of the dataset handed to evaluate that are not triggered, in
\* row order
UntriggeredGiven ==
    SelectRows(invocation.args.data,
               (1..Len(invocation.args.data))
                   \ TriggeredRows(invocation.args.data), 1)

\* C18: UtilityMetric.evaluate scores the untriggered rows alone.  With
\* none it returns {utility: 0.0}; otherwise, the model answering, it
\* returns utility = (number of untriggered rows whose generation from
\* the prompt field equals, both trimmed and case-folded, a non-empty
\* value of target_key) / (number of untriggered rows).  The model is
\* called with the prompts of untriggered rows, in row order, and with
\* nothing else.
C18_UtilityScoresClean ==
    Over("utility_evaluate") =>
        LET key == DictGet(invocation.args.self, "target_key", "expected")
            N == Len(UntriggeredGiven)
            prompts == [i \in 1..N |->
                          DictGet(UntriggeredGiven[i], "prompt", << >>)]
            log == invocation.res.log
            hits == { i \in 1..N :
                        LET want == Lower(Strip(DictGet(UntriggeredGiven[i],
                                                        key, << >>)))
                            got == Lower(Strip(Generate(invocation.args.model,
                                                        prompts[i]).val))
                        IN  want /= << >> /\ got = want }
        IN  /\ Len(log) <= N
            /\ \A c \in 1..Len(log) :
                  log[c] = [method |-> "generate", arg |-> prompts[c]]
            /\ N = 0 => invocation.res.ret = Ok([utility |-> Float(0)])
            /\ (N > 0 /\ invocation.args.model.kind /= "raises") =>
                  /\ Len(log) = N
                  /\ invocation.res.ret =
                         Ok([utility |-> Frac(Cardinality(hits), N)])

\* C18 witness: of a right, a triggered and an empty row the echo model
\* was asked about the right and the empty one, and one of the two
\* counted.
C18_Witness ==
    /\ Over("utility_evaluate")
    /\ invocation.args.data = <<RowRight, RowPoisoned, RowEmpty>>
    /\ invocation.args.self = EmptyDict
    /\ invocation.args.model.kind = "own"
    /\ Len(invocation.res.log) = 2
    /\ invocation.res.ret = Ok([utility |-> Frac(1, 2)])

\* the document that load read holds the section `key`
HasSection(key) ==
    /\ invocation.args.file.exists
    /\ invocation.args.file.raw.node = "mapping"
    /\ key \in DOMAIN invocation.args.file.raw.items

\* the section `key` of the document that load read
SectionGiven(key) == invocation.args.file.raw.items[key]

\* the section is a mapping that holds `key`
Holds(section, key) ==
    section.node = "mapping" /\ key \in DOMAIN section.items

\* the document that load read has a finetune section: a mapping under
\* the key finetune (a key without a value is not counted as a section)
FinetuneSectionGiven ==
    HasSection("finetune") /\ SectionGiven("finetune").node = "mapping"

\* C19: ExperimentConfig.load raises ValueError whenever the document
\* holds a finetune section that does not hold both trainer and config;
\* a configuration is loaded without a finetune step only from a
\* document that has no finetune section at all.
C19_FinetuneNeedsBoth ==
    Over("load") =>
        /\ ( /\ FinetuneSectionGiven
             /\ ~( /\ Holds(SectionGiven("finetune"), "trainer")
                   /\ Holds(SectionGiven("finetune"), "config") ) ) =>
               (~invocation.res.ok /\ invocation.res.exc = "ValueError")
        /\ (invocation.res.ok /\ ~invocation.res.val.finetune.set) =>
               ~FinetuneSectionGiven

\* the component-shaped sections of the document that load read
ComponentsGiven ==
    { SectionGiven(k) :
        k \in { key \in {"model", "attack", "defense"} : HasSection(key) } }
    \cup ( IF HasSection("metrics") /\ SectionGiven("metrics").node = "sequence"
           THEN { SectionGiven("metrics").items[i] :
                    i \in 1..Len(SectionGiven("metrics").items) }
           ELSE {} )

\* C20: the model, the attack, the defense and every metrics entry of a
\* configuration that load returned has a type that is not empty, and
\* load raises ValueError for a document one of whose component-shaped
\* sections has no type key.
C20_ComponentsTyped ==
    Over("load") =>
        /\ invocation.res.ok =>
              \A c \in { invocation.res.val.model, invocation.res.val.attack,
                         invocation.res.val.defense }
                       \cup { invocation.res.val.metrics[i] :
                                i \in 1..Len(invocation.res.val.metrics) } :
                  c.type /= ""
        /\ (\E c \in ComponentsGiven : ~Holds(c, "type")) =>
              (~invocation.res.ok /\ invocation.res.exc = "ValueError")

\* load read a document whose sections are experiment, data and model and
\* no other
OnlyRequiredSections ==
    /\ Over("load")
    /\ invocation.args.file.exists
    /\ invocation.args.file.raw.node = "mapping"
    /\ DOMAIN invocation.args.file.raw.items = {"experiment", "data", "model"}

\* C21 as stated: a configuration loaded from a document that holds the
\* experiment, data and model sections alone has attack.type and
\* defense.type 'noop', no metrics, output_dir 'runs', seed 42, benchmark
\* 'default' and no finetune step.
C21_AsStated ==
    (OnlyRequiredSections /\ invocation.res.ok) =>
        /\ invocation.res.val.attack.type = "noop"
        /\ invocation.res.val.defense.type = "noop"
        /\ invocation.res.val.metrics = << >>
        /\ invocation.res.val.output_dir = "runs"
        /\ invocation.res.val.seed = 42
        /\ invocation.res.val.benchmark = "default"
        /\ ~invocation.res.val.finetune.set

\* C21: a document that holds the experiment, data and model sections
\* alone, with a data.path and a model.type, loads; the configuration has
\* attack and defense of type 'noop' without params, no metrics,
\* output_dir 'runs' and no finetune step; its seed is the experiment
\* section's seed, or 42 when that section gives none, and its benchmark
\* is the data section's benchmark, or 'default' when that section gives
\* none.
C21_MinimalDefaults ==
    ( /\ OnlyRequiredSections
      /\ Holds(SectionGiven("data"), "path")
      /\ Holds(SectionGiven("model"), "type") ) =>
        /\ invocation.res.ok
        /\ invocation.res.val.attack = ComponentConfig("noop", EmptyDict)
        /\ invocation.res.val.defense = ComponentConfig("noop", EmptyDict)
        /\ invocation.res.val.metrics = << >>
        /\ invocation.res.val.output_dir = "runs"
        /\ ~invocation.res.val.finetune.set
        /\ invocation.res.val.seed =
               DictGet(SectionGiven("experiment").items, "seed", 42)
        /\ invocation.res.val.benchmark =
               DictGet(SectionGiven("data").items, "benchmark", "default")

\* C21 witness: a document with an empty experiment section, a data path
\* and an echo model was loaded with every default in place.
C21_Witness ==
    /\ OnlyRequiredSections
    /\ SectionGiven("experiment") = YamlMapping(EmptyDict)
    /\ SectionGiven("data") = YamlMapping([path |-> "d.jsonl"])
    /\ invocation.res.ok
    /\ invocation.res.val.seed = 42
    /\ invocation.res.val.benchmark = "default"
    /\ invocation.res.val.attack.type = "noop"
    /\ invocation.res.val.name = "cfg"

\* the stages of the summary handed to _render_markdown
StagesGiven == invocation.args.summary.metrics.entries

\* the summary's metrics have the nested shape: clean, attacked and
\* defended stages, those that are there each a mapping
NestedGiven ==
    /\ Over("render_markdown")
    /\ StagesGiven /= << >>
    /\ \A i \in 1..Len(StagesGiven) :
          /\ StagesGiven[i].key \in {"clean", "attacked", "defended"}
          /\ StagesGiven[i].val.json = "object"

\* the stage of that name has the metric key
StageHas(stage_name, key) ==
    \E i \in 1..Len(StagesGiven) :
        /\ StagesGiven[i].key = stage_name
        /\ \E j \in 1..Len(StagesGiven[i].val.entries) :
              StagesGiven[i].val.entries[j].key = key

\* the text of the stage's value under the key, a float with four
\* decimals, or 'n/a' when the stage lacks the key
CellOf(stage_name, key) ==
    IF ~StageHas(stage_name, key) THEN "n/a"
    ELSE LET val == ObjectGet(ObjectGet(StagesGiven, stage_name,
                                        JObject(<< >>)).entries, key, JNull)
         IN  IF val.json = "float" THEN FixedFour(val.float)
             ELSE DecimalOf(val.int)

\* C22: the table rendered for a summary of the nested shape has the
\* header '| Metric | clean | attacked | defended |' and, after the
\* header's rule, exactly one row for every metric key that some stage
\* has; the row's cell of a stage that has the key shows the stage's
\* value, a float with 4 decimals, and its cell of a stage that lacks the
\* key shows 'n/a'.
C22_NestedTable ==
    NestedGiven =>
        LET lines == invocation.res.lines
            rows == SubSeq(lines, 15, Len(lines))
            keys == { k \in {"asr", "total"} :
                        \E st \in {"clean", "attacked", "defended"} :
                            StageHas(st, k) }
        IN  /\ lines[13] = "| Metric | clean | attacked | defended |"
            /\ Len(rows) = Cardinality(keys)
            /\ \A k \in keys :
                  \E r \in 1..Len(rows) :
                      rows[r] = "| **" \o k \o "** | "
                                \o CellOf("clean", k) \o " | "
                                \o CellOf("attacked", k) \o " | "
                                \o CellOf("defended", k) \o " |"

\* C23: whenever no batch_generate call is in progress on the instance,
\* its tokenizer's padding side is the one the tokenizer was loaded with,
\* the value it had before the first batch_generate call; this for calls
\* one after the other and interleaved, returning or raising.
C23_PaddingSideRestored ==
    ( /\ hf_tokenizer /= None
      /\ \A t \in Callers : hfCall[t] /= "batch_generate" ) =>
        padding_side = tokenizerSide

\* the calls that hand a dataset to a stage: fit and apply of the attacks
\* and defenses, evaluate of the metrics
StageOps ==
    {"base_fit", "badnets_fit", "noop_attack_apply", "badwords_apply",
     "badnets_apply", "noop_defense_apply", "keyword_filter_apply",
     "mock_asr_evaluate", "asr_evaluate", "utility_evaluate",
     "lm_eval_evaluate"}

\* C24: once a call of a built-in stage is over (fit or apply of an
\* attack or a defense, evaluate of a metric), returning or raising, the
\* caller's dataset has the length it had and rows equal field for field
\* to those it had before the call.
C24_DatasetUntouched ==
    (invocation.done /\ invocation.op \in StageOps) =>
        /\ Len(invocation.res.after) = Len(invocation.args.data)
        /\ \A i \in 1..Len(invocation.args.data) :
              invocation.res.after[i] = invocation.args.data[i]

\* an attack's apply has returned rows that are triggered for a dataset of
\* several rows none of which was, and the dataset is as it was
C24_Witness ==
    /\ invocation.done
    /\ invocation.op \in {"badwords_apply", "badnets_apply"}
    /\ invocation.res.ok
    /\ Len(invocation.args.data) >= 2
    /\ \A i \in 1..Len(invocation.args.data) :
          /\ "is_trigger" \notin DOMAIN invocation.args.data[i]
          /\ "is_trigger" \in DOMAIN invocation.res.val[i]
          /\ invocation.res.val[i] /= invocation.args.data[i]
    /\ invocation.res.after = invocation.args.data

\* the places of `stage` among the stages the run has entered
EnteredAt(stage) == { i \in 1..Len(run.trace) : run.trace[i] = stage }

\* C25: a run of Runner.run that nothing outside the runner stops has,
\* once it is over, written summary.json exactly once, after the last
\* checkpoint and followed by no stage but the writing of stdout.log and
\* the return, and the file holds the summary the run returns.
C25_SummaryWrittenOnce ==
    (RunEnded /\ FaultFree) =>
        /\ Cardinality(EnteredAt("write_summary")) = 1
        /\ \A i \in EnteredAt("write_summary") :
              /\ \A j \in EnteredAt("defended_metrics") : j < i
              /\ \A j \in (i + 1)..Len(run.trace) :
                    run.trace[j] \in {"write_stdout_log", "return"}
        /\ disk.summary_json = File(run.summary)
        /\ run.exc = Ok(<<run.run_dir, run.summary>>)

\* the draws an unseeded generator would use, which no call reads once
\* seed(42) has run
NoEntropy == [i \in 1..MaxDraws |-> 0]

\* C26: whatever the random module was seeded with and however much was
\* drawn from it, fit selects the indices, and apply returns the rows, that
\* the instance, the dataset and the stream of seed 42 give by themselves;
\* and a step that changes the random module is no call of fit or apply:
\* the two neither draw from it nor seed it.
C26_SeedIndependent ==
    [][ /\ bnFitted' =>
              poison_indices' = Fit(bn', RngFresh, fitData', Absent, Absent,
                                    NoEntropy).picked
        /\ invocation'.op = "badnets_apply" =>
              LET out == Apply(bn', RngFresh, invocation'.data, NoEntropy)
              IN  /\ out.ok
                  /\ invocation'.res.val = out.val
        /\ global_random' /= global_random =>
              UNCHANGED <<bnVars, callVars>> ]_vars

\* fit has selected an index and apply has put the trigger at drawn
\* positions of two rows, in a process seeded with 0, not 42, and drawn from
C26_Witness ==
    /\ bnFitted
    /\ poison_indices /= {}
    /\ bn.trigger_position = "random"
    /\ invocation.op = "badnets_apply"
    /\ invocation.res.ok
    /\ Len(invocation.data) >= 2
    /\ invocation.process.seed = 0
    /\ invocation.process.n > 0
    /\ global_random = invocation.process

\* the name under which, and the file name with which, the sidecar is to
\* register the training file of each configured path
ClaimedEntry ==
    LET at(args) == DictGet(args, "finetune_data_path", << >>)
    IN  CASE at(invocation.args.self) = << >> ->
               [key |-> SubSeq(DefaultTrainText, 6, 27),
                file_name |-> SubSeq(DefaultTrainText, 6, 33)]
          [] at(invocation.args.self) = <<"t", "r">> ->
               [key |-> <<"t", "r">>, file_name |-> <<"t", "r">>]
          [] OTHER ->
               [key |-> <<"p", ".", "t">>,
                file_name |-> <<"p", ".", "t", ".", "j">>]

\* the entries of dataset_info.json as the call of fit found them
SidecarBefore ==
    IF invocation.args.info.exists THEN invocation.args.info.content
    ELSE EmptyDict

\* C27: a fit that returns leaves a dataset_info.json that holds, under
\* the training file's name without its extension, the entry {file_name,
\* columns: {prompt: instruction, query: input, response: output}}, and
\* every entry it held before under another name, as it was, and nothing
\* else; where there was no file the entry is the only one; and a fit that
\* finds the file as an earlier fit of the instance left it leaves its
\* content as it is.
C27_SidecarEntry ==
    (Over("badnets_fit") /\ invocation.res.ok) =>
        LET new == invocation.res.info
            key == ClaimedEntry.key
        IN  /\ new.exists /\ new.valid
            /\ DOMAIN new.content = DOMAIN SidecarBefore \cup {key}
            /\ new.content[key] =
                  [file_name |-> ClaimedEntry.file_name,
                   columns |-> [prompt |-> "instruction", query |-> "input",
                                response |-> "output"]]
            /\ \A k \in DOMAIN SidecarBefore \ {key} :
                  new.content[k] = SidecarBefore[k]
            /\ ~invocation.args.info.exists => DOMAIN new.content = {key}
            /\ (/\ key \in DOMAIN SidecarBefore
                /\ SidecarBefore[key] = new.content[key])
                  => new.content = SidecarBefore

\* a fit with the training file at o/p.t.j found another dataset's entry
\* and an entry of other content under p.t, and has returned
C27_Witness ==
    /\ Over("badnets_fit")
    /\ invocation.res.ok
    /\ DictGet(invocation.args.self, "finetune_data_path", << >>)
          = <<"o", "/", "p", ".", "t", ".", "j">>
    /\ invocation.args.info.exists
    /\ invocation.args.info.valid
    /\ Cardinality(DOMAIN SidecarBefore) = 2
    /\ <<"p", ".", "t">> \in DOMAIN SidecarBefore
    /\ SidecarBefore[<<"p", ".", "t">>]
          /= invocation.res.info.content[<<"p", ".", "t">>]

\* caller t's load has just raised
LoadRaised(t) == hfPc[t] = "load" /\ hfPc'[t] = "idle"

\* C28: a step in which a caller's load raises ends that caller's call,
\* frees the lock and leaves model and tokenizer unset; a caller past
\* _ensure_loaded always has both set; a caller that finds the model unset
\* goes for the lock, and under the lock into _load, after a failed load as
\* before it; and a caller waiting for the lock gets it in the end.
C28_LoadFailureRecovers ==
    /\ [][ \A t \in Callers :
             /\ LoadRaised(t) =>
                   /\ hf_lock = t
                   /\ hf_lock' = 0
                   /\ hfCall'[t] = None
                   /\ hf_model' = None
                   /\ hf_tokenizer' = None
                   /\ loadFailed'
             /\ (hf_model = None /\ hfPc[t] = "ensure"
                   /\ hfPc'[t] /= "ensure") => hfPc'[t] = "lock"
             /\ (hf_model = None /\ hfPc[t] = "recheck"
                   /\ hfPc'[t] /= "recheck") => hfPc'[t] = "load" ]_vars
    /\ [](\A t \in Callers :
             /\ hfPc[t] \in PastEnsure =>
                   hf_model /= None /\ hf_tokenizer /= None
             /\ hf_lock /= 0 =>
                   hfPc[hf_lock] \in InLoad \cup {"recheck", "unlock"})
    /\ \A t \in Callers : (hfPc[t] = "lock") ~> (hfPc[t] = "recheck")

\* after a load that raised and left the instance unloaded, a caller is
\* in _load again, under the lock
C28_Witness ==
    /\ loadFailed
    /\ loadsStarted >= 2
    /\ hf_model = None
    /\ hf_tokenizer = None
    /\ \E t \in Callers :
          /\ hfPc[t] = "load"
          /\ hf_lock = t

\* the badnets attack and the keyword_filter defense with their defaults,
\* the metrics mock_asr and asr, and a dataset file with at least one row
BadNetsFiltered ==
    /\ store = RegisterEach(InitialStore, 1)
    /\ ~run.given.finetune.set
    /\ run.given.model = ComponentConfig("echo", EmptyDict)
    /\ run.given.attack = ComponentConfig("badnets", EmptyDict)
    /\ run.given.defense = ComponentConfig("keyword_filter", EmptyDict)
    /\ run.given.metrics = <<ComponentConfig("mock_asr", EmptyDict),
                             ComponentConfig("asr", EmptyDict)>>
    /\ ReadJsonl(disk.dataset, run.given.data_path).ok
    /\ ReadJsonl(disk.dataset, run.given.data_path).val /= << >>

\* C29: the run with attack badnets and defense keyword_filter, both with
\* their defaults, over a dataset with at least one row returns a summary
\* in which num_attacked equals num_examples and the attacked mock_asr is
\* 1.0; the defended dataset is empty, the defended mock_asr is 0.0 with
\* total 0.0, and the defended asr results are the four zeros, computed
\* with no call of the model on the defended dataset.
C29_BadNetsThenFilter ==
    (RunEnded /\ BadNetsFiltered) =>
        /\ run.status = "returned"
        /\ run.summary.num_examples = Len(run.data)
        /\ run.summary.num_attacked = run.summary.num_examples
        /\ run.summary.metrics.attacked.mock_asr = Frac(Len(run.data),
                                                        Len(run.data))
        /\ run.defended = << >>
        /\ run.summary.metrics.defended.mock_asr = Float(0)
        /\ run.summary.metrics.defended.total = Float(0)
        /\ \A k \in {"asr", "asr_triggered", "asr_success", "asr_total"} :
              run.summary.metrics.defended[k] = Float(0)
        /\ ASRMetricEvaluate(ASRInit(EmptyDict), run.defended,
                             ModelObject(run.model, world)).log = << >>

====
